---- MODULE Spec2Model ----
(***************************************************************************)
(* The in-memory feature database of the interactive map: the ordered      *)
(* multi-key table IAMMapTable, the domain records (features, properties,  *)
(* attributes, settings) and the store IAMStorage built from four tables.  *)
(*                                                                         *)
(* Encoding of JavaScript values.                                          *)
(*  - undefined is the empty tuple <<>>.  An optional scalar is <<>> or    *)
(*    the one-element tuple <<v>>; an optional object is <<>> or a record. *)
(*  - An object is a record (a function from field names to values), so    *)
(*    item[key] reads a field by name as the source does.                  *)
(*  - A JavaScript Map is a sequence of [key, val] entries in insertion    *)
(*    order; an Array is a sequence.  Indices are 1-based here, 0-based in *)
(*    the source.                                                          *)
(***************************************************************************)
EXTENDS Integers, Sequences, FiniteSets, TLC

VARIABLES table, call, _features, _featureAttributes, _featureProperties,
          _featureSettings, processResult

vars == <<table, call, _features, _featureAttributes, _featureProperties,
          _featureSettings, processResult>>

undefined == <<>>

Some(v) == <<v>>

(* ------------------------------------------------------------------ *)
(* Program constants                                                    *)
(* ------------------------------------------------------------------ *)
POINT == 1
LINESTRING == 2
POLYGON == 3

LEVEL_STANDARD == 1
LEVEL_ATTRIBUTE == 2
LEVEL_FEATURE == 3

OVERWRITE == 1
DROPTABLE == 2

INFO == 1
WARN == 2
ERROR == 3

(* ------------------------------------------------------------------ *)
(* JavaScript Map: has / get / set / keys                               *)
(* ------------------------------------------------------------------ *)
MapHas(map, key) == \E i \in 1..Len(map) : map[i].key = key

MapIndex(map, key) == CHOOSE i \in 1..Len(map) : map[i].key = key

MapGet(map, key) == map[MapIndex(map, key)].val

\* Map.set keeps the position of an existing key and appends a new one.
MapSet(map, key, val) ==
    IF MapHas(map, key)
    THEN [map EXCEPT ![MapIndex(map, key)] = [key |-> key, val |-> val]]
    ELSE Append(map, [key |-> key, val |-> val])

MapKeys(map) == [i \in 1..Len(map) |-> map[i].key]

(* ------------------------------------------------------------------ *)
(* Domain records: Feature / ExtendedFeature                            *)
(* ------------------------------------------------------------------ *)
\* new ExtendedFeature({type, id, coordinates}): the Feature fields plus
\* an empty property object and an empty attribute list.
ExtendedFeature(type, id, coordinates) ==
    [featureType |-> type, _id |-> id, _coordinates |-> coordinates,
     _properties |-> <<>>, _attributes |-> <<>>]

FeatureEquals(this, other) ==
    /\ other.featureType = this.featureType
    /\ other._id = this._id

\* _properties is a plain object: an ordered map from name to value.
addProperty(feature, name, value) ==
    [feature EXCEPT !._properties = MapSet(@, name, value)]

\* The value read is optional: Some(value), or undefined for an absent name.
getPropertyValue(feature, name) ==
    IF MapHas(feature._properties, name)
    THEN Some(MapGet(feature._properties, name))
    ELSE undefined

clearProperties(feature) == [feature EXCEPT !._properties = <<>>]

addAttribute(feature, attribute) ==
    IF attribute.featureType = feature.featureType /\ attribute._featureId = feature._id
    THEN [feature EXCEPT !._attributes = Append(@, attribute)]
    ELSE feature

clearAttributes(feature) == [feature EXCEPT !._attributes = <<>>]

(* ------------------------------------------------------------------ *)
(* Domain records: FeatureProperty, FeatureAttribute                    *)
(* ------------------------------------------------------------------ *)
FeatureProperty(featureType, featureId, propertyName, propertyValue) ==
    [featureType |-> featureType, _featureId |-> featureId,
     _propertyName |-> propertyName, _propertyValue |-> propertyValue]

FeaturePropertyEquals(this, other) ==
    /\ other.featureType = this.featureType
    /\ other._featureId = this._featureId
    /\ other._propertyName = this._propertyName

\* Month and day fields are carried like the years; the adapters leave
\* them undefined unless the file gives them.
FeatureAttribute(featureType, featureId, propertyName, propertyValue, fromYear, toYear) ==
    [featureType |-> featureType, _featureId |-> featureId,
     _propertyName |-> propertyName, _propertyValue |-> propertyValue,
     _fromYear |-> fromYear, _fromMonth |-> undefined, _fromDay |-> undefined,
     _toYear |-> toYear, _toMonth |-> undefined, _toDay |-> undefined]

FeatureAttributeEquals(this, other) ==
    /\ FeaturePropertyEquals(this, other)
    /\ this._propertyValue = other._propertyValue
    /\ this._fromYear = other._fromYear
    /\ this._fromMonth = other._fromMonth
    /\ this._fromDay = other._fromDay
    /\ this._toYear = other._toYear
    /\ this._toMonth = other._toMonth
    /\ this._toDay = other._toDay

(* ------------------------------------------------------------------ *)
(* Domain records: Color, Border, TextSettings                          *)
(*                                                                      *)
(* Every field of a settings, border or text-settings object is         *)
(* undefined, Some(scalar) or a nested object, so that "is this field   *)
(* undefined" can be asked of any field, as the merge functions do.     *)
(* ------------------------------------------------------------------ *)
Field(props, key) == IF key \in DOMAIN props THEN props[key] ELSE undefined

\* new Color({r, g, b, alpha}): copies the four components.
Color(props) == [r |-> props.r, g |-> props.g, b |-> props.b, alpha |-> props.alpha]

BorderFields ==
    {"color", "width", "lineDash1", "lineDash2", "lineDash3", "lineDash4",
     "lineDashOffset", "lineCap"}

\* new Border(props): Object.assign(this, props), then color is wrapped
\* in a new Color when truthy and width is kept only when truthy.  The
\* empty object {} and undefined are both <<>>, which is what
\* `props.x ?? {}` passes when x is absent.
Border(props) ==
    [k \in BorderFields \cup DOMAIN props |->
        IF k = "color"
        THEN IF Field(props, "color") # undefined THEN Color(props.color) ELSE undefined
        ELSE IF k = "width"
        THEN IF Field(props, "width") \notin {undefined, Some(0)} THEN props.width ELSE undefined
        ELSE Field(props, k)]

\* An assignment in which the fields this defines are kept.
assignDefined_KeepsThis(this, master) ==
    [k \in DOMAIN this \cup DOMAIN master |->
        IF Field(this, k) # undefined THEN this[k] ELSE Field(master, k)]

\* Object.assign({...this}, temp), temp being master without its
\* undefined fields: master's defined fields overwrite this's.
assignDefined(this, master) ==
    [k \in DOMAIN this \cup DOMAIN master |->
        IF Field(master, k) # undefined THEN master[k] ELSE Field(this, k)]

BorderMerge(this, masterBorder) ==
    IF masterBorder # undefined
    THEN Border(assignDefined(this, masterBorder))
    ELSE this

TextSettingsFields ==
    {"textFillColor", "textBorder", "textFontStyle", "textFontWeight", "textFontSize",
     "textFontSizeType", "textFontFamily", "textFont", "textOffsetX", "textOffsetY",
     "textRotation", "textAlign", "textPlacement", "textBackgroundFillColor",
     "textBackgroundBorder", "textBackgroundPaddingTop", "textBackgroundPaddingRight",
     "textBackgroundPaddingBottom", "textBackgroundPaddingLeft", "textMaxAngle",
     "textOverflow", "textRepeat"}

\* An object made by new TextSettings has the methods of the class; the
\* copy {...this} has the same fields and no methods.  The field
\* "__proto__" tells the two apart; it is no own field, so no copy of
\* fields carries it over.
TextSettings(props) ==
    [k \in TextSettingsFields \cup DOMAIN props \cup {"__proto__"} |->
        IF k = "__proto__" THEN Some("TextSettings")
        ELSE IF k \in {"textFillColor", "textBackgroundFillColor"}
        THEN IF Field(props, k) # undefined THEN Color(props[k]) ELSE undefined
        ELSE IF k \in {"textBorder", "textBackgroundBorder"}
        THEN Border(Field(props, k))
        ELSE Field(props, k)]

\* TextSettings.getStandard(): the font style is given under the key
\* textFonStyle, so textFontStyle itself stays undefined.
TextSettingsGetStandard ==
    TextSettings([textFillColor |-> [r |-> 0, g |-> 0, b |-> 0, alpha |-> 1],
                  textFonStyle |-> Some("normal"),
                  textFontWeight |-> Some("normal"),
                  textFontSize |-> Some(10),
                  textFontSizeType |-> Some("pt"),
                  textFontFamily |-> Some("Arial"),
                  textOffsetY |-> Some(10),
                  textOverflow |-> Some(TRUE)])

TextSettingsMerge(this, masterTextSettings) ==
    IF masterTextSettings # undefined
    THEN LET ret == TextSettings(assignDefined(this, masterTextSettings)) IN
         [ret EXCEPT
            !.textBorder = BorderMerge(this.textBorder, masterTextSettings.textBorder),
            !.textBackgroundBorder =
                IF this.textBackgroundBorder # undefined
                THEN BorderMerge(this.textBackgroundBorder,
                                 masterTextSettings.textBackgroundBorder)
                ELSE @]
    ELSE [this EXCEPT !["__proto__"] = Some("Object")]

(* ------------------------------------------------------------------ *)
(* Domain records: FeatureSettings and its three specialisations        *)
(* ------------------------------------------------------------------ *)
FeatureSettingsFields ==
    {"featureType", "levelType", "levelName", "levelValue", "showFeature", "showText",
     "textSettings"}

\* new FeatureSettings(params)
FeatureSettings(params) ==
    [k \in FeatureSettingsFields \cup DOMAIN params |->
        IF k = "featureType"
        THEN IF Field(params, "type") # undefined THEN params.type
             ELSE Field(params, "featureType")
        ELSE IF k = "textSettings"
        THEN IF Field(params, "textSettings") # undefined
             THEN TextSettings(params.textSettings)
             ELSE undefined
        ELSE Field(params, k)]

\* The fields PointSettings declares.  A declared class field of a derived
\* class is initialised (to undefined) when super() returns, that is after
\* FeatureSettings' constructor has copied params into the object; the
\* PointSettings constructor then sets featureType, pointFill and
\* pointBorder again and nothing else.
PointSettingsFields ==
    {"pointShapeType", "pointFill", "pointBorder", "pointRadius", "pointDisplacementX",
     "pointDisplacementY", "pointRotation", "pointPoints", "pointStarRadius"}

PointSettings(props) ==
    LET super == FeatureSettings(props) IN
    [k \in DOMAIN super \cup PointSettingsFields |->
        IF k = "featureType" THEN Some(POINT)
        ELSE IF k = "pointFill"
        THEN IF Field(props, "pointFill") # undefined THEN Color(props.pointFill) ELSE undefined
        ELSE IF k = "pointBorder" THEN Border(Field(props, "pointBorder"))
        ELSE IF k \in PointSettingsFields THEN undefined
        ELSE super[k]]

LineStringSettingsFields == {"lineBorder1", "lineBorder2"}

LineStringSettings(props) ==
    LET super == FeatureSettings(props) IN
    [k \in DOMAIN super \cup LineStringSettingsFields |->
        IF k = "featureType" THEN Some(LINESTRING)
        ELSE IF k \in LineStringSettingsFields THEN Border(Field(props, k))
        ELSE super[k]]

PolygonSettingsFields == {"polygonBorder", "polygonFill"}

PolygonSettings(props) ==
    LET super == FeatureSettings(props) IN
    [k \in DOMAIN super \cup PolygonSettingsFields |->
        IF k = "featureType" THEN Some(POLYGON)
        ELSE IF k = "polygonFill"
        THEN IF Field(props, "polygonFill") # undefined THEN Color(props.polygonFill) ELSE undefined
        ELSE IF k = "polygonBorder" THEN Border(Field(props, "polygonBorder"))
        ELSE super[k]]

CIRCLE == 1

Black == [r |-> 0, g |-> 0, b |-> 0, alpha |-> 1]

LightGray == [r |-> 200, g |-> 200, b |-> 200, alpha |-> 1]

StandardLevel ==
    [levelType |-> Some(LEVEL_STANDARD), levelName |-> Some("Standard"),
     levelValue |-> Some("")]

PointSettingsGetStandard ==
    PointSettings(StandardLevel @@
        [showFeature |-> Some(TRUE), showText |-> Some(FALSE),
         textSettings |-> TextSettingsGetStandard,
         pointShapeType |-> Some(CIRCLE),
         pointFill |-> LightGray,
         pointBorder |-> Border([color |-> Black, width |-> Some(1)]),
         pointRadius |-> Some(5)])

LineStringSettingsGetStandard ==
    LineStringSettings(StandardLevel @@
        [showFeature |-> Some(TRUE), showText |-> Some(FALSE),
         textSettings |-> TextSettingsGetStandard,
         lineBorder1 |-> Border([color |-> Black, width |-> Some(2)])])

PolygonSettingsGetStandard ==
    PolygonSettings(StandardLevel @@
        [showFeature |-> Some(TRUE), showText |-> Some(TRUE),
         textSettings |-> TextSettingsGetStandard,
         polygonFill |-> LightGray,
         polygonBorder |-> Border([color |-> Black, width |-> Some(1)])])

\* The value of a call that ends in an uncaught TypeError.
TypeError == [exception |-> "TypeError"]

IsException(v) == "exception" \in DOMAIN v

\* FeatureSettings.merge(masterSettings): this.getTextSettings().merge(..)
\* is a call on undefined when this has no text settings, and a call of
\* something that is no function when they are a copy without methods.
FeatureSettingsMerge(this, masterSettings) ==
    LET ret == FeatureSettings(assignDefined(this, masterSettings)) IN
    IF this.textSettings = undefined \/ this.textSettings["__proto__"] # Some("TextSettings")
    THEN TypeError
    ELSE [ret EXCEPT !.textSettings =
                TextSettingsMerge(this.textSettings, masterSettings.textSettings)]

PointSettingsMerge(this, masterPointSettings) ==
    LET super == FeatureSettingsMerge(this, masterPointSettings) IN
    IF IsException(super) THEN super
    ELSE [PointSettings(super) EXCEPT
            !.pointBorder = BorderMerge(this.pointBorder, masterPointSettings.pointBorder)]

LineStringSettingsMerge(this, masterLineStringSettings) ==
    LET super == FeatureSettingsMerge(this, masterLineStringSettings) IN
    IF IsException(super) THEN super
    ELSE [LineStringSettings(super) EXCEPT
            !.lineBorder1 = BorderMerge(this.lineBorder1, masterLineStringSettings.lineBorder1),
            !.lineBorder2 = BorderMerge(this.lineBorder2, masterLineStringSettings.lineBorder2)]

PolygonSettingsMerge(this, masterPolygonSettings) ==
    LET super == FeatureSettingsMerge(this, masterPolygonSettings) IN
    IF IsException(super) THEN super
    ELSE [PolygonSettings(super) EXCEPT
            !.polygonBorder = BorderMerge(this.polygonBorder, masterPolygonSettings.polygonBorder)]

\* this.merge(master): dispatched on the class of this.
merge(this, master) ==
    IF "pointBorder" \in DOMAIN this THEN PointSettingsMerge(this, master)
    ELSE IF "lineBorder1" \in DOMAIN this THEN LineStringSettingsMerge(this, master)
    ELSE IF "polygonBorder" \in DOMAIN this THEN PolygonSettingsMerge(this, master)
    ELSE FeatureSettingsMerge(this, master)

\* assertParams(target, source) of the settings edit dialogue: every key
\* of source is assigned to the stored settings object.
assertParams(target, source) ==
    [k \in DOMAIN target \cup DOMAIN source |->
        IF k \in DOMAIN source THEN source[k] ELSE target[k]]

FeatureSettingsEquals(this, other) ==
    /\ this.featureType = other.featureType
    /\ this.levelType = other.levelType
    /\ this.levelName = other.levelName
    /\ this.levelValue = other.levelValue

\* storedItem.equals(item): dispatched on the class of the stored item,
\* recognised here by the fields the class declares.
equals(storedItem, item) ==
    IF "_fromYear" \in DOMAIN storedItem THEN FeatureAttributeEquals(storedItem, item)
    ELSE IF "_propertyName" \in DOMAIN storedItem THEN FeaturePropertyEquals(storedItem, item)
    ELSE IF "levelType" \in DOMAIN storedItem THEN FeatureSettingsEquals(storedItem, item)
    ELSE FeatureEquals(storedItem, item)

(* ------------------------------------------------------------------ *)
(* IAMMapTable                                                          *)
(* ------------------------------------------------------------------ *)
IAMMapTable(primaryKeys) == [_primaryKeys |-> primaryKeys, _mapTable |-> <<>>]

\* A terminal level that keeps what is stored.
ReplaceEqual_KeepStored(found, item) == found

\* The forEach of the terminal level: every stored item that equals the
\* new one is overwritten in place.
ReplaceEqual(found, item) ==
    [i \in 1..Len(found) |-> IF equals(found[i], item) THEN item ELSE found[i]]

RECURSIVE _addItem(_, _, _, _)
_addItem(primaryKeys, item, map, index) ==
    LET key == item[primaryKeys[index]] IN
    IF index = Len(primaryKeys)
    THEN IF MapHas(map, key)
         THEN LET found == MapGet(map, key)
                  overwritten == \E i \in 1..Len(found) : equals(found[i], item)
              IN  MapSet(map, key,
                         IF overwritten THEN ReplaceEqual(found, item)
                                        ELSE Append(found, item))
         ELSE MapSet(map, key, <<item>>)
    ELSE IF MapHas(map, key)
         THEN MapSet(map, key, _addItem(primaryKeys, item, MapGet(map, key), index + 1))
         ELSE _addItem(primaryKeys, item, MapSet(map, key, <<>>), index)

addItem(t, item) ==
    [t EXCEPT !._mapTable = _addItem(t._primaryKeys, item, t._mapTable, 1)]

\* Flattening of the terminal lists below a map, depth-first in insertion
\* order: what getAllItems with no filter function at any level returns.
RECURSIVE Flatten(_, _)
Flatten(map, depth) ==
    IF Len(map) = 0 THEN <<>>
    ELSE (IF depth = 1 THEN map[1].val ELSE Flatten(map[1].val, depth - 1))
         \o Flatten(Tail(map), depth)

AllItems(t) == Flatten(t._mapTable, Len(t._primaryKeys))

\* The terminal list the item's primary key values lead to (empty when a
\* key of the path is absent).
RECURSIVE SlotOf(_, _, _, _)
SlotOf(primaryKeys, item, map, index) ==
    LET key == item[primaryKeys[index]] IN
    IF ~MapHas(map, key) THEN <<>>
    ELSE IF index = Len(primaryKeys) THEN MapGet(map, key)
    ELSE SlotOf(primaryKeys, item, MapGet(map, key), index + 1)

Slot(t, item) == SlotOf(t._primaryKeys, item, t._mapTable, 1)

(* ------------------------------------------------------------------ *)
(* IAMStorage: table definitions                                        *)
(* ------------------------------------------------------------------ *)
_featuresTableDef == <<"featureType", "_id">>
_featureAttributesTableDef == <<"featureType", "_featureId", "_propertyName", "_propertyValue">>
_featurePropertiesTableDef == <<"featureType", "_featureId", "_propertyName">>
_featureSettingsTableDef == <<"featureType", "levelType", "levelName", "levelValue">>

(* ------------------------------------------------------------------ *)
(* Records the tables are exercised with                                *)
(* ------------------------------------------------------------------ *)
PointA == <<10, 50>>

PointB == <<11, 51>>

LineA == <<PointA, PointB>>

FeatureItems ==
    {ExtendedFeature(POINT, "f1", PointA), ExtendedFeature(POINT, "f1", PointB),
     ExtendedFeature(POINT, "f2", PointA), ExtendedFeature(LINESTRING, "f1", LineA)}

PropertyItems ==
    {FeatureProperty(POINT, "f1", "name", "a"), FeatureProperty(POINT, "f1", "name", "b"),
     FeatureProperty(POINT, "f1", "length", "a"), FeatureProperty(LINESTRING, "f1", "name", "a")}

\* Same feature and name throughout for f1: two windows of one value, one
\* other value, and one attribute of another feature.
AttributeItems ==
    {FeatureAttribute(POINT, "f1", "population", "1000", Some(1900), Some(1950)),
     FeatureAttribute(POINT, "f1", "population", "1000", Some(1950), undefined),
     FeatureAttribute(POINT, "f1", "population", "2000", Some(1950), undefined),
     FeatureAttribute(POINT, "f2", "population", "1000", Some(1900), Some(1950))}

FeatureLevel(featureId, featureName) ==
    [levelType |-> Some(LEVEL_FEATURE), levelName |-> Some(featureId),
     levelValue |-> Some(featureName)]

AttributeLevel(attributeName, attributeValue) ==
    [levelType |-> Some(LEVEL_ATTRIBUTE), levelName |-> Some(attributeName),
     levelValue |-> Some(attributeValue)]

SettingItems ==
    {PointSettings(StandardLevel @@ [showFeature |-> Some(FALSE)]),
     PointSettings(FeatureLevel("f1", "f1")),
     PointSettings(FeatureLevel("f1", "f1") @@ [showText |-> Some(TRUE)]),
     PointSettings(AttributeLevel("population", "1000")),
     LineStringSettings(FeatureLevel("f1", "f1"))}

TableDefs ==
    {_featuresTableDef, _featureAttributesTableDef, _featurePropertiesTableDef,
     _featureSettingsTableDef}

ItemsFor(primaryKeys) ==
    IF primaryKeys = _featuresTableDef THEN FeatureItems
    ELSE IF primaryKeys = _featureAttributesTableDef THEN AttributeItems
    ELSE IF primaryKeys = _featurePropertiesTableDef THEN PropertyItems
    ELSE SettingItems

(* ------------------------------------------------------------------ *)
(* The store as constructed: four empty tables, the settings table      *)
(* seeded with the three standard settings                              *)
(* ------------------------------------------------------------------ *)
_initStandardSettings(settingsTable) ==
    addItem(addItem(addItem(settingsTable, PointSettingsGetStandard),
                    LineStringSettingsGetStandard),
            PolygonSettingsGetStandard)

\* IAMStorage._init, as a record of the four tables.
_init ==
    [_features |-> IAMMapTable(_featuresTableDef),
     _featureAttributes |-> IAMMapTable(_featureAttributesTableDef),
     _featureProperties |-> IAMMapTable(_featurePropertiesTableDef),
     _featureSettings |-> _initStandardSettings(IAMMapTable(_featureSettingsTableDef))]

(* ------------------------------------------------------------------ *)
(* ProcessResult.  A text is the sequence of the strings concatenated   *)
(* into it.                                                             *)
(* ------------------------------------------------------------------ *)
\* new ProcessResult(status, text): details is not set by the constructor.
ProcessResult(status, text) == [status |-> status, text |-> text, details |-> undefined]

\* An addDetail that takes the status of every detail.
addDetail_TakesLastStatus(pr, status, detail) ==
    [status |-> status,
     text |-> IF status > pr.status /\ status = WARN
              THEN Append(pr.text, " with warnings")
              ELSE pr.text,
     details |-> Append(pr.details, detail)]

\* An addDetail that marks the text at every warning.
addDetail_MarksEveryWarning(pr, status, detail) ==
    [status |-> IF status > pr.status THEN status ELSE pr.status,
     text |-> IF status = WARN THEN Append(pr.text, " with warnings") ELSE pr.text,
     details |-> Append(pr.details, detail)]

\* details is created by the first detail; undefined and the empty list
\* are both <<>>.
addDetail(pr, status, detail) ==
    [status |-> IF status > pr.status THEN status ELSE pr.status,
     text |-> IF status > pr.status /\ status = WARN
              THEN Append(pr.text, " with warnings")
              ELSE pr.text,
     details |-> Append(pr.details, detail)]

(* ------------------------------------------------------------------ *)
(* IAMMapTable: point lookup                                            *)
(* ------------------------------------------------------------------ *)
\* _getItem: found[0] when the last value leads to a non-empty terminal
\* list, the map or list found otherwise, undefined when a key is absent.
RECURSIVE _getItem(_, _, _, _)
_getItem(t, values, map, index) ==
    IF ~MapHas(map, values[index]) THEN undefined
    ELSE LET found == MapGet(map, values[index]) IN
         IF index = Len(values)
         THEN IF index = Len(t._primaryKeys) /\ Len(found) > 0 THEN found[1] ELSE found
         ELSE _getItem(t, values, found, index + 1)

getItem(t, values) == _getItem(t, values, t._mapTable, 1)

(* ------------------------------------------------------------------ *)
(* IAMStorage: queries and bulk loaders.  db is the record of the four  *)
(* tables; a loader returns the new db and the process result.          *)
(* ------------------------------------------------------------------ *)
\* parseInt of a feature type that is a number.
parseInt(n) == n

\* A lookup by id alone.
getFeature_IgnoresType(db, featureType, featureId) ==
    LET found == SelectSeq(AllItems(db._features), LAMBDA f : f._id = featureId)
    IN  IF Len(found) > 0 THEN found[1] ELSE undefined

getFeature(db, featureType, featureId) ==
    getItem(db._features, <<parseInt(featureType), featureId>>)

getAllFeatures(db) == AllItems(db._features)

\* The stored feature objects are shared with the features table: a
\* method called on a stored feature changes the object in the table.
\* forEachFeature applies f to every stored feature in place.
forEachFeature(features, f(_)) ==
    [features EXCEPT !._mapTable =
        [i \in 1..Len(@) |->
            [key |-> @[i].key,
             val |-> [j \in 1..Len(@[i].val) |->
                        [key |-> @[i].val[j].key,
                         val |-> [n \in 1..Len(@[i].val[j].val) |->
                                    f(@[i].val[j].val[n])]]]]]]

\* The object getFeature returns is the first of its terminal list.
updateFeature(features, feature) ==
    LET byType == MapGet(features._mapTable, feature.featureType)
        list == MapGet(byType, feature._id)
    IN  [features EXCEPT !._mapTable =
            MapSet(@, feature.featureType,
                   MapSet(byType, feature._id, [list EXCEPT ![1] = feature]))]

RECURSIVE addItems(_, _)
addItems(t, items) ==
    IF Len(items) = 0 THEN t ELSE addItems(addItem(t, Head(items)), Tail(items))

\* A DROPTABLE that recreates the features table alone.
loadFeatures_DropsFeaturesOnly(db, datasource, insertType) ==
    LET pr == ProcessResult(INFO, <<"Features loaded successfully!">>)
        start == IF insertType = DROPTABLE
                 THEN [db EXCEPT !._features = IAMMapTable(_featuresTableDef)]
                 ELSE db
    IN  [db |-> [start EXCEPT !._features = addItems(@, datasource)],
         processResult |->
            addDetail(pr, INFO, <<ToString(Len(datasource)),
                                  " features successfully loaded into database.">>)]

loadFeatures(db, datasource, insertType) ==
    LET pr == ProcessResult(INFO, <<"Features loaded successfully!">>)
        start == IF insertType = DROPTABLE THEN _init ELSE db
    IN  [db |-> [start EXCEPT !._features = addItems(@, datasource)],
         processResult |->
            addDetail(pr, INFO, <<ToString(Len(datasource)),
                                  " features successfully loaded into database.">>)]

\* One pass of the forEach over the properties of the data source.
RECURSIVE loadPropertiesFrom(_, _, _, _)
loadPropertiesFrom(db, datasource, pr, counter) ==
    IF Len(datasource) = 0
    THEN [db |-> db,
          processResult |->
            addDetail(pr, INFO, <<ToString(counter),
                                  " feature properties successfully loaded into database.">>)]
    ELSE LET featuresProperty == Head(datasource)
             foundFeatures == getFeature(db, featuresProperty.featureType,
                                         featuresProperty._featureId)
         IN  IF foundFeatures = undefined
             THEN loadPropertiesFrom(db, Tail(datasource),
                    addDetail(pr, WARN,
                        <<"WARNING: Property not added as no feature found for featureId/featureType ",
                          featuresProperty._featureId, "/",
                          ToString(featuresProperty.featureType)>>),
                    counter)
             ELSE loadPropertiesFrom(
                    [db EXCEPT
                        !._featureProperties = addItem(@, featuresProperty),
                        !._features = updateFeature(@,
                            addProperty(foundFeatures, featuresProperty._propertyName,
                                        featuresProperty._propertyValue))],
                    Tail(datasource), pr, counter + 1)

loadFeaturesProperties(db, datasource, insertType) ==
    LET pr == ProcessResult(INFO, <<"Features Properties loaded successfully!">>)
        start == IF insertType = DROPTABLE
                 THEN [db EXCEPT
                         !._featureProperties = IAMMapTable(_featurePropertiesTableDef),
                         !._features = forEachFeature(@, clearProperties)]
                 ELSE db
    IN  loadPropertiesFrom(start, datasource, pr, 0)

RECURSIVE loadAttributesFrom(_, _, _, _)
loadAttributesFrom(db, datasource, pr, counter) ==
    IF Len(datasource) = 0
    THEN [db |-> db,
          processResult |->
            addDetail(pr, INFO, <<ToString(counter),
                                  " feature attributes successfully loaded into database.">>)]
    ELSE LET featuresAttribute == Head(datasource)
             foundFeatures == getFeature(db, featuresAttribute.featureType,
                                         featuresAttribute._featureId)
         IN  IF foundFeatures = undefined
             THEN loadAttributesFrom(db, Tail(datasource),
                    addDetail(pr, WARN,
                        <<"WARNING: Attribute not added as no feature found for featureId/featureType ",
                          featuresAttribute._featureId, "/",
                          ToString(featuresAttribute.featureType)>>),
                    counter)
             ELSE loadAttributesFrom(
                    [db EXCEPT
                        !._featureAttributes = addItem(@, featuresAttribute),
                        !._features = updateFeature(@,
                            addAttribute(foundFeatures, featuresAttribute))],
                    Tail(datasource), pr, counter + 1)

loadFeaturesAttributes(db, datasource, insertType) ==
    LET pr == ProcessResult(INFO, <<"Features Attributes loaded successfully!">>)
        start == IF insertType = DROPTABLE
                 THEN [db EXCEPT
                         !._featureAttributes = IAMMapTable(_featureAttributesTableDef),
                         !._features = forEachFeature(@, clearAttributes)]
                 ELSE db
    IN  loadAttributesFrom(start, datasource, pr, 0)

\* A DROPTABLE that does not seed the new settings table.
loadSettings_NoSeed(db, datasource, insertType) ==
    LET pr == ProcessResult(INFO, <<"Settings loaded successfully!">>)
        start == IF insertType = DROPTABLE
                 THEN [db EXCEPT !._featureSettings = IAMMapTable(_featureSettingsTableDef)]
                 ELSE db
    IN  [db |-> [start EXCEPT !._featureSettings = addItems(@, datasource)],
         processResult |->
            addDetail(pr, INFO, <<ToString(Len(datasource)),
                                  " settings successfully loaded into database.">>)]

loadSettings(db, datasource, insertType) ==
    LET pr == ProcessResult(INFO, <<"Settings loaded successfully!">>)
        start == IF insertType = DROPTABLE
                 THEN [db EXCEPT !._featureSettings =
                         _initStandardSettings(IAMMapTable(_featureSettingsTableDef))]
                 ELSE db
    IN  [db |-> [start EXCEPT !._featureSettings = addItems(@, datasource)],
         processResult |->
            addDetail(pr, INFO, <<ToString(Len(datasource)),
                                  " settings successfully loaded into database.">>)]

addSetting(db, featuresSettings) ==
    [db EXCEPT !._featureSettings = addItem(@, featuresSettings)]

StoreInit ==
    /\ _features = _init._features
    /\ _featureAttributes = _init._featureAttributes
    /\ _featureProperties = _init._featureProperties
    /\ _featureSettings = _init._featureSettings
    /\ processResult = undefined

storeVars ==
    <<_features, _featureAttributes, _featureProperties, _featureSettings, processResult>>

(* ------------------------------------------------------------------ *)
(* Specification of one table: a table of one of the four key schemas,  *)
(* filled by addItem                                                    *)
(* ------------------------------------------------------------------ *)
TableInit ==
    /\ table \in {IAMMapTable(def) : def \in TableDefs}
    /\ call = [op |-> "new"]
    /\ StoreInit

AddItem ==
    \E item \in ItemsFor(table._primaryKeys) :
        /\ table' = addItem(table, item)
        /\ call' = [op |-> "addItem", item |-> item, before |-> table]
        /\ UNCHANGED storeVars

TableNext == AddItem

SpecTable == TableInit /\ [][TableNext]_vars

(* ------------------------------------------------------------------ *)
(* C1                                                                   *)
(* ------------------------------------------------------------------ *)
\* All terminal lists of a table, in depth-first order.
RECURSIVE Terminals(_, _)
Terminals(map, depth) ==
    IF Len(map) = 0 THEN <<>>
    ELSE (IF depth = 1 THEN <<map[1].val>> ELSE Terminals(map[1].val, depth - 1))
         \o Terminals(Tail(map), depth)

TerminalLists(t) == Terminals(t._mapTable, Len(t._primaryKeys))

NoEqualTwice(list) ==
    \A i, j \in 1..Len(list) : i # j => ~equals(list[i], list[j])

SameSlot(t, r, s) == \A n \in 1..Len(t._primaryKeys) :
                        r[t._primaryKeys[n]] = s[t._primaryKeys[n]]

\* What one addItem call has done to the terminal list of its item.
AddItemEffect(before, item, after) ==
    LET b == Slot(before, item)
        a == Slot(after, item)
    IN  /\ IF \E i \in 1..Len(b) : equals(b[i], item)
           THEN /\ Len(a) = Len(b)
                /\ \A i \in 1..Len(b) :
                      a[i] = IF equals(b[i], item) THEN item ELSE b[i]
           ELSE a = Append(b, item)
        /\ \A i \in 1..Len(AllItems(before)) :
              LET r == AllItems(before)[i] IN
              ~SameSlot(before, r, item) => Slot(after, r) = Slot(before, r)

MaxBatch == 2

\* Longest attribute list of a feature the loaders are followed to.
MaxAttributes == 2

Batches(items) == UNION {[1..n -> items] : n \in 0..MaxBatch}

InsertTypes == {OVERWRITE, DROPTABLE}

LoadedFeatures ==
    {ExtendedFeature(POINT, "f1", PointA), ExtendedFeature(LINESTRING, "f1", LineA)}

LoadedProperties ==
    {FeatureProperty(POINT, "f1", "name", "a"), FeatureProperty(LINESTRING, "f1", "name", "b")}

LoadedAttributes ==
    {FeatureAttribute(POINT, "f1", "population", "1000", Some(1900), Some(1950)),
     FeatureAttribute(POINT, "f2", "population", "1000", Some(1900), Some(1950))}

\* A settings file may hold any record: here one of level Standard under
\* a name of its own.
LoadedSettings ==
    {PointSettings([levelType |-> Some(LEVEL_STANDARD), levelName |-> Some("Custom"),
                    levelValue |-> Some("")])}

Db == [_features |-> _features, _featureAttributes |-> _featureAttributes,
       _featureProperties |-> _featureProperties, _featureSettings |-> _featureSettings]

Returned(result) ==
    /\ _features' = result.db._features
    /\ _featureAttributes' = result.db._featureAttributes
    /\ _featureProperties' = result.db._featureProperties
    /\ _featureSettings' = result.db._featureSettings
    /\ processResult' = result.processResult

StoreSpecInit ==
    /\ table = undefined
    /\ call = [op |-> "new", insertType |-> OVERWRITE]
    /\ StoreInit

LongestAttributes(features) ==
    \A i \in 1..Len(AllItems(features)) :
        Len(AllItems(features)[i]._attributes) <= MaxAttributes

LoadFeatures ==
    \E datasource \in Batches(LoadedFeatures), insertType \in InsertTypes :
        /\ Returned(loadFeatures(Db, datasource, insertType))
        /\ call' = [op |-> "loadFeatures", insertType |-> insertType]
        /\ UNCHANGED table

LoadFeaturesProperties ==
    \E datasource \in Batches(LoadedProperties), insertType \in InsertTypes :
        /\ Returned(loadFeaturesProperties(Db, datasource, insertType))
        /\ call' = [op |-> "loadFeaturesProperties", insertType |-> insertType]
        /\ UNCHANGED table

LoadFeaturesAttributes ==
    \E datasource \in Batches(LoadedAttributes), insertType \in InsertTypes :
        LET result == loadFeaturesAttributes(Db, datasource, insertType) IN
        /\ LongestAttributes(result.db._features)
        /\ Returned(result)
        /\ call' = [op |-> "loadFeaturesAttributes", insertType |-> insertType]
        /\ UNCHANGED table

LoadSettings ==
    \E datasource \in Batches(LoadedSettings), insertType \in InsertTypes :
        /\ Returned(loadSettings(Db, datasource, insertType))
        /\ call' = [op |-> "loadSettings", insertType |-> insertType]
        /\ UNCHANGED table

AddSetting ==
    \E featuresSettings \in LoadedSettings :
        /\ _featureSettings' = addSetting(Db, featuresSettings)._featureSettings
        /\ call' = [op |-> "addSetting", insertType |-> OVERWRITE]
        /\ UNCHANGED <<table, _features, _featureAttributes, _featureProperties,
                       processResult>>

StoreNext ==
    \/ LoadFeatures
    \/ LoadFeaturesProperties
    \/ LoadFeaturesAttributes
    \/ LoadSettings
    \/ AddSetting

SpecStore == StoreSpecInit /\ [][StoreNext]_vars

(* ------------------------------------------------------------------ *)
(* C2                                                                   *)
(* ------------------------------------------------------------------ *)
HasFeature(features, featureType, featureId) ==
    \E i \in 1..Len(AllItems(features)) :
        /\ AllItems(features)[i].featureType = featureType
        /\ AllItems(features)[i]._id = featureId

\* A property or attribute record whose feature is not in the features table.
Dangling(db, record) == ~HasFeature(db._features, record.featureType, record._featureId)

IsWarning(detail) ==
    detail[1] \in {"WARNING: Property not added as no feature found for featureId/featureType ",
                   "WARNING: Attribute not added as no feature found for featureId/featureType "}

\* What a load of datasource into a table that held base has to leave:
\* the table as if the dangling records were not in the data source, one
\* warning per dangling record, in their order, and the count of the others.
SkipsDangling(db, datasource, base, loadedTable, pr) ==
    LET dangling == SelectSeq(datasource, LAMBDA r : Dangling(db, r))
        others == SelectSeq(datasource, LAMBDA r : ~Dangling(db, r))
        warnings == SelectSeq(pr.details, IsWarning)
    IN  /\ loadedTable = addItems(base, others)
        /\ Len(AllItems(loadedTable)) <= Len(AllItems(base)) + Len(others)
        /\ Len(warnings) = Len(dangling)
        /\ \A k \in 1..Len(dangling) :
              /\ warnings[k][2] = dangling[k]._featureId
              /\ warnings[k][4] = ToString(dangling[k].featureType)
        /\ Len(pr.details) = Len(dangling) + 1
        /\ pr.details[Len(pr.details)][1] = ToString(Len(others))
        /\ pr.status = IF Len(dangling) > 0 THEN WARN ELSE INFO

\* C2: in every reachable store, for every data source and either insert
\* mode, loadFeaturesProperties and loadFeaturesAttributes skip each record
\* whose (featureType, featureId) is not in the features table - the table
\* is what loading the other records alone gives - add exactly one WARN
\* detail for it, and still process the rest of the data source.
C2_DanglingRecordsAreSkipped ==
    \A insertType \in InsertTypes :
        /\ \A datasource \in Batches(LoadedProperties) :
              LET result == loadFeaturesProperties(Db, datasource, insertType) IN
              SkipsDangling(Db, datasource,
                  IF insertType = DROPTABLE THEN IAMMapTable(_featurePropertiesTableDef)
                                            ELSE _featureProperties,
                  result.db._featureProperties, result.processResult)
        /\ \A datasource \in Batches(LoadedAttributes) :
              LET result == loadFeaturesAttributes(Db, datasource, insertType) IN
              SkipsDangling(Db, datasource,
                  IF insertType = DROPTABLE THEN IAMMapTable(_featureAttributesTableDef)
                                            ELSE _featureAttributes,
                  result.db._featureAttributes, result.processResult)

\* An attribute load that warned about one record and loaded another.
C2_Witness_WarnedAndLoaded ==
    /\ call.op = "loadFeaturesAttributes"
    /\ processResult.status = WARN
    /\ Len(processResult.details) = 2
    /\ IsWarning(processResult.details[1])
    /\ processResult.details[2][1] = "1"
    /\ Len(AllItems(_featureAttributes)) = 1

(* ------------------------------------------------------------------ *)
(* C3                                                                   *)
(* ------------------------------------------------------------------ *)
\* C3: every record of the properties table and of the attributes table
\* references a (featureType, featureId) present in the features table.
C3_ReferentialIntegrity ==
    /\ \A i \in 1..Len(AllItems(_featureProperties)) :
          ~Dangling(Db, AllItems(_featureProperties)[i])
    /\ \A i \in 1..Len(AllItems(_featureAttributes)) :
          ~Dangling(Db, AllItems(_featureAttributes)[i])

\* Features loaded once more over a store that holds properties and attributes.
C3_Witness_FeaturesReloaded ==
    /\ call = [op |-> "loadFeatures", insertType |-> OVERWRITE]
    /\ Len(AllItems(_featureProperties)) = 2
    /\ Len(AllItems(_featureAttributes)) = 1

(* ------------------------------------------------------------------ *)
(* C4, C5                                                               *)
(* ------------------------------------------------------------------ *)
RecordsOf(t, feature) ==
    SelectSeq(AllItems(t), LAMBDA r : r.featureType = feature.featureType
                                      /\ r._featureId = feature._id)

PropertyNames == {p._propertyName : p \in LoadedProperties}

\* C4: for every stored feature f and property name n, f.getPropertyValue(n)
\* is defined exactly when the properties table holds a record
\* (f.type, f.id, n), and is then that record's value.
C4_PropertyCacheConsistent ==
    \A i \in 1..Len(AllItems(_features)) : \A n \in PropertyNames :
        LET f == AllItems(_features)[i]
            stored == SelectSeq(RecordsOf(_featureProperties, f),
                                LAMBDA r : r._propertyName = n)
        IN  /\ getPropertyValue(f, n) # undefined <=> Len(stored) > 0
            /\ \A k \in 1..Len(stored) :
                  getPropertyValue(f, n) = Some(stored[k]._propertyValue)

\* C5: for every stored feature f, f's attribute list holds each attribute
\* record stored in the attributes table for (f.type, f.id) exactly once
\* and nothing else.
C5_AttributeCacheConsistent ==
    \A i \in 1..Len(AllItems(_features)) :
        LET f == AllItems(_features)[i]
            stored == RecordsOf(_featureAttributes, f)
        IN  /\ \A k \in 1..Len(stored) :
                  Cardinality({j \in 1..Len(f._attributes) : f._attributes[j] = stored[k]}) = 1
            /\ \A j \in 1..Len(f._attributes) :
                  \E k \in 1..Len(stored) : stored[k] = f._attributes[j]

(* ------------------------------------------------------------------ *)
(* C6                                                                   *)
(* ------------------------------------------------------------------ *)
\* C6: the settings table holds exactly one setting of level Standard for
\* each of the feature types Point, LineString and Polygon.
C6_OneStandardSettingPerType ==
    \A featureType \in {POINT, LINESTRING, POLYGON} :
        Cardinality({i \in 1..Len(AllItems(_featureSettings)) :
                        /\ AllItems(_featureSettings)[i].featureType = Some(featureType)
                        /\ AllItems(_featureSettings)[i].levelType = Some(LEVEL_STANDARD)}) = 1

(* ------------------------------------------------------------------ *)
(* C7                                                                   *)
(* ------------------------------------------------------------------ *)
Items(t) == {AllItems(t)[i] : i \in 1..Len(AllItems(t))}

WithoutProperties(feature) == [feature EXCEPT !._properties = <<>>]

WithoutAttributes(feature) == [feature EXCEPT !._attributes = <<>>]

\* The stored features, in order, are those of before with props(f) and
\* atts(f) as their caches.
SameFeaturesWith(before, after, props(_), atts(_)) ==
    /\ Len(AllItems(after)) = Len(AllItems(before))
    /\ \A i \in 1..Len(AllItems(before)) :
          LET f == AllItems(before)[i] IN
          AllItems(after)[i] = [f EXCEPT !._properties = props(f), !._attributes = atts(f)]

\* The property cache a data source alone gives a feature.
RECURSIVE PropertiesFrom(_, _)
PropertiesFrom(datasource, feature) ==
    IF Len(datasource) = 0 THEN <<>>
    ELSE LET last == datasource[Len(datasource)]
             front == PropertiesFrom(SubSeq(datasource, 1, Len(datasource) - 1), feature)
         IN  IF last.featureType = feature.featureType /\ last._featureId = feature._id
             THEN MapSet(front, last._propertyName, last._propertyValue)
             ELSE front

AttributesFrom(datasource, feature) ==
    SelectSeq(datasource, LAMBDA r : r.featureType = feature.featureType
                                     /\ r._featureId = feature._id)

\* C7: DROPTABLE resets exactly the affected tables before the data source
\* is inserted.  loadFeatures leaves the properties and attributes tables
\* empty, the settings table with exactly the three seeded Standard
\* settings and the features table with only the data source;
\* loadFeaturesProperties replaces only the properties table and every
\* feature's property cache, loadFeaturesAttributes only the attributes
\* table and every feature's attribute cache, loadSettings only the
\* settings table, re-seeded with the three Standard settings; every other
\* table is unchanged.
C7_DropTableResetsAffectedTables ==
    /\ \A datasource \in Batches(LoadedFeatures) :
          LET after == loadFeatures(Db, datasource, DROPTABLE).db IN
          /\ AllItems(after._featureProperties) = <<>>
          /\ AllItems(after._featureAttributes) = <<>>
          /\ AllItems(after._featureSettings) =
                <<PointSettingsGetStandard, LineStringSettingsGetStandard,
                  PolygonSettingsGetStandard>>
          /\ Items(after._features) = {datasource[i] : i \in 1..Len(datasource)}
          /\ after._features = addItems(IAMMapTable(_featuresTableDef), datasource)
    /\ \A datasource \in Batches(LoadedProperties) :
          LET after == loadFeaturesProperties(Db, datasource, DROPTABLE).db IN
          /\ Items(after._featureProperties) =
                {datasource[i] : i \in {j \in 1..Len(datasource) : ~Dangling(Db, datasource[j])}}
          /\ after._featureAttributes = _featureAttributes
          /\ after._featureSettings = _featureSettings
          /\ SameFeaturesWith(_features, after._features,
                              LAMBDA f : PropertiesFrom(datasource, f),
                              LAMBDA f : f._attributes)
    /\ \A datasource \in Batches(LoadedAttributes) :
          LET after == loadFeaturesAttributes(Db, datasource, DROPTABLE).db IN
          /\ Items(after._featureAttributes) =
                {datasource[i] : i \in {j \in 1..Len(datasource) : ~Dangling(Db, datasource[j])}}
          /\ after._featureProperties = _featureProperties
          /\ after._featureSettings = _featureSettings
          /\ SameFeaturesWith(_features, after._features,
                              LAMBDA f : f._properties,
                              LAMBDA f : AttributesFrom(datasource, f))
    /\ \A datasource \in Batches(LoadedSettings) :
          LET after == loadSettings(Db, datasource, DROPTABLE).db IN
          /\ AllItems(after._featureSettings) =
                AllItems(addItems(_init._featureSettings, datasource))
          /\ Items(after._featureSettings) =
                {PointSettingsGetStandard, LineStringSettingsGetStandard,
                 PolygonSettingsGetStandard} \cup {datasource[i] : i \in 1..Len(datasource)}
          /\ after._features = _features
          /\ after._featureProperties = _featureProperties
          /\ after._featureAttributes = _featureAttributes

\* A DROPTABLE load of properties that left a store with attributes and
\* settings of its own, and no property in table or cache.
C7_Witness_PropertiesDropped ==
    /\ call = [op |-> "loadFeaturesProperties", insertType |-> DROPTABLE]
    /\ AllItems(_featureProperties) = <<>>
    /\ Len(AllItems(_features)) = 2
    /\ \A i \in 1..Len(AllItems(_features)) : AllItems(_features)[i]._properties = <<>>
    /\ \E i \in 1..Len(AllItems(_features)) : Len(AllItems(_features)[i]._attributes) = 2
    /\ Len(AllItems(_featureAttributes)) = 1
    /\ Len(AllItems(_featureSettings)) = 4

(* ------------------------------------------------------------------ *)
(* Specification of merge: two objects of one class, as the             *)
(* constructors, the settings files and the edit dialogue make them,    *)
(* and one merge of the first with the second.  call holds the two      *)
(* objects and, after the merge, what it returned.                      *)
(* ------------------------------------------------------------------ *)
Red == [r |-> 255, g |-> 0, b |-> 0, alpha |-> 1]

MergedBorders ==
    {Border(<<>>),
     Border([color |-> Black, width |-> Some(1)]),
     Border([color |-> Red, width |-> Some(3), lineCap |-> Some("round")]),
     Border([lineDash1 |-> Some(4), lineDash2 |-> Some(2)])}

MergedTextSettings ==
    {TextSettingsGetStandard,
     TextSettings(<<>>),
     TextSettings([textFillColor |-> Red, textFontSize |-> Some(14),
                   textBorder |-> [color |-> Black, width |-> Some(1)]]),
     TextSettings([textFontStyle |-> Some("italic"), textOffsetY |-> Some(0),
                   textBackgroundFillColor |-> LightGray])}

\* The values the edit form of a point setting submits; the inputs for
\* displacement, rotation, points and star radius are left empty.
PointForm(showFeature, showText, pointShapeType, pointRadius, pointFill, pointBorder) ==
    [showFeature |-> showFeature, showText |-> showText,
     pointShapeType |-> pointShapeType, pointRadius |-> pointRadius,
     pointFill |-> pointFill, pointBorder |-> Border(pointBorder),
     pointDisplacementX |-> undefined, pointDisplacementY |-> undefined,
     pointRotation |-> undefined, pointPoints |-> undefined,
     pointStarRadius |-> undefined]

\* Point settings as the program holds them: the standard setting, as
\* seeded and as edited in the dialogue; the empty setting of
\* getEmptySettings, as added and as edited; a setting of a settings file.
MergedPointSettings ==
    {PointSettingsGetStandard,
     assertParams(PointSettingsGetStandard,
                  PointForm(Some(TRUE), Some(TRUE), Some(CIRCLE), Some(8), LightGray,
                            [color |-> Black, width |-> Some(1)])),
     PointSettings(FeatureLevel("f1", "f1")),
     assertParams(PointSettings(AttributeLevel("population", "1000")),
                  PointForm(Some(FALSE), undefined, Some(CIRCLE), Some(8), undefined, <<>>)),
     PointSettings(FeatureLevel("f1", "f1") @@
        [showFeature |-> Some(FALSE), showText |-> Some(TRUE),
         textSettings |-> [textFontSize |-> Some(14)],
         pointFill |-> Red, pointBorder |-> [color |-> Red, width |-> Some(3)]])}

MergedLineStringSettings ==
    {LineStringSettingsGetStandard,
     LineStringSettings(FeatureLevel("f1", "f1")),
     LineStringSettings(AttributeLevel("population", "1000") @@
        [showText |-> Some(TRUE), textSettings |-> [textFontSize |-> Some(14)],
         lineBorder1 |-> [color |-> Red, width |-> Some(3)],
         lineBorder2 |-> [color |-> Black, width |-> Some(1)]])}

MergedPolygonSettings ==
    {PolygonSettingsGetStandard,
     PolygonSettings(FeatureLevel("f1", "f1")),
     PolygonSettings(FeatureLevel("f1", "f1") @@
        [showText |-> Some(FALSE), textSettings |-> [textFontSize |-> Some(14)],
         polygonFill |-> Red, polygonBorder |-> [width |-> Some(3)]])}

MergedSettings == {MergedPointSettings, MergedLineStringSettings, MergedPolygonSettings}

MergeInit ==
    /\ table = undefined
    /\ StoreInit
    /\ \E class \in MergedSettings \cup {MergedBorders, MergedTextSettings} :
          \E this \in class, master \in class :
              call = [op |-> "new", this |-> this, master |-> master, ret |-> undefined]

Merge ==
    /\ call.op = "new"
    /\ \E class \in MergedSettings : call.this \in class
    /\ call' = [call EXCEPT !.op = "merge", !.ret = merge(call.this, call.master)]
    /\ UNCHANGED <<table, storeVars>>

MergeBorder ==
    /\ call.op = "new"
    /\ call.this \in MergedBorders
    /\ call' = [call EXCEPT !.op = "merge", !.ret = BorderMerge(call.this, call.master)]
    /\ UNCHANGED <<table, storeVars>>

MergeTextSettings ==
    /\ call.op = "new"
    /\ call.this \in MergedTextSettings
    /\ call' = [call EXCEPT !.op = "merge", !.ret = TextSettingsMerge(call.this, call.master)]
    /\ UNCHANGED <<table, storeVars>>

MergeNext == Merge \/ MergeBorder \/ MergeTextSettings

SpecMerge == MergeInit /\ [][MergeNext]_vars

(* ------------------------------------------------------------------ *)
(* C8, C9                                                               *)
(* ------------------------------------------------------------------ *)
\* The fields that hold a nested border or text settings object, and the
\* class marker.
NestedFields ==
    {"textSettings", "pointBorder", "lineBorder1", "lineBorder2", "polygonBorder",
     "textBorder", "textBackgroundBorder", "__proto__"}

DefinedInBoth(a, x) ==
    {f \in (DOMAIN a \cap DOMAIN x) \ NestedFields : a[f] # undefined /\ x[f] # undefined}

DefinedInOne(a, x) ==
    {f \in (DOMAIN a \cup DOMAIN x) \ NestedFields :
        (Field(a, f) # undefined) # (Field(x, f) # undefined)}

IsSettings(o) == "levelType" \in DOMAIN o

BordersOf(o) ==
    DOMAIN o \cap {"pointBorder", "lineBorder1", "lineBorder2", "polygonBorder",
                   "textBorder", "textBackgroundBorder"}

\* The fields PointSettings declares and its constructor does not set.
PointOnlyFields == PointSettingsFields \ {"pointFill", "pointBorder"}

HasTextSettings(o) ==
    o.textSettings # undefined /\ o.textSettings["__proto__"] = Some("TextSettings")

ArgumentWins(a, x, ret) == \A f \in DefinedInBoth(a, x) : ret[f] = x[f]

ReceiverWins(a, x, ret) == \A f \in DefinedInBoth(a, x) : ret[f] = a[f]

Carries(a, x, ret) ==
    \A f \in DefinedInOne(a, x) :
        ret[f] = IF Field(a, f) # undefined THEN a[f] ELSE x[f]

\* C9: a field defined in exactly one of a and x, in the settings or in a
\* nested border or text settings object, has that value in a.merge(x);
\* and a.merge(a) equals a field for field.
C9_GapFillingAndIdempotence ==
    call.op = "merge" /\ IsSettings(call.this) =>
        LET a == call.this
            x == call.master
            ret == call.ret
        IN  /\ ~IsException(ret)
            /\ Carries(a, x, ret)
            /\ \A b \in BordersOf(a) : Carries(a[b], x[b], ret[b])
            /\ a.textSettings # undefined /\ x.textSettings # undefined =>
                  Carries(a.textSettings, x.textSettings, ret.textSettings)
            /\ a = x => ret = a

(* ------------------------------------------------------------------ *)
(* IAMMapTable.getAllItems and IAMStorage's settings queries            *)
(* ------------------------------------------------------------------ *)
\* A filter function of getAllItems: none (undefined), parseInt(x) ===
\* value, or x === value.  The keys of the settings table are optional
\* values; parseInt of undefined is NaN, which equals nothing.
NoFilter == [kind |-> "none"]

ParseIntIs(value) == [kind |-> "parseInt", value |-> value]

Is(value) == [kind |-> "is", value |-> value]

\* values.find((y) => y === x) !== undefined
IsOneOf(values) == [kind |-> "find", values |-> values]

Accepts(filter, key) ==
    CASE filter.kind = "none" -> TRUE
      [] filter.kind = "parseInt" -> key # undefined /\ parseInt(key[1]) = filter.value
      [] filter.kind = "is" -> key = filter.value
      [] filter.kind = "find" -> \E i \in 1..Len(filter.values) : filter.values[i] = key

RECURSIVE _getAllItems(_, _, _)
_getAllItems(filters, map, index) ==
    IF Len(map) = 0 THEN <<>>
    ELSE LET rest == _getAllItems(filters, Tail(map), index) IN
         IF ~Accepts(filters[index], map[1].key) THEN rest
         ELSE (IF index = Len(filters) THEN map[1].val
               ELSE _getAllItems(filters, map[1].val, index + 1)) \o rest

getAllItems(t, filters) ==
    IF Len(filters) # Len(t._primaryKeys) THEN <<>>
    ELSE _getAllItems(filters, t._mapTable, 1)

getStandardSettings(db, featureType) ==
    LET ret == getAllItems(db._featureSettings,
                   <<ParseIntIs(parseInt(featureType)), ParseIntIs(LEVEL_STANDARD),
                     NoFilter, NoFilter>>)
    IN  IF Len(ret) > 0 THEN ret[1] ELSE undefined

\* A string is truthy when it is given and not empty, a number when it is
\* given and not 0.
TruthyString(value) == value # undefined /\ value # Some("")

TruthyNumber(value) == value # undefined /\ value # Some(0)

getSettings(db, featureType, levelType, levelName, levelValue) ==
    getAllItems(db._featureSettings,
        <<ParseIntIs(parseInt(featureType)), ParseIntIs(parseInt(levelType)),
          IF TruthyString(levelName) THEN Is(levelName) ELSE NoFilter,
          IF TruthyString(levelValue) THEN Is(levelValue) ELSE NoFilter>>)

\* The comparator of the sort: parseInt(x._fromYear) - parseInt(y._fromYear)
\* is NaN when one of the years is absent, and a NaN result counts as 0.
compareFromYear(x, y) ==
    IF x._fromYear = undefined \/ y._fromYear = undefined THEN 0
    ELSE x._fromYear[1] - y._fromYear[1]

\* Array.sort by parseInt(_fromYear), which is stable: an insertion sort.
RECURSIVE sortByFromYear(_)
sortByFromYear(atts) ==
    IF Len(atts) = 0 THEN <<>>
    ELSE LET sorted == sortByFromYear(SubSeq(atts, 1, Len(atts) - 1))
             last == atts[Len(atts)]
             before == SelectSeq(sorted, LAMBDA a : compareFromYear(a, last) <= 0)
             after == SelectSeq(sorted, LAMBDA a : compareFromYear(a, last) > 0)
         IN  before \o <<last>> \o after

\* ret.merge(master) inside getSettingsOfFeature: an exception ends the
\* call, and a call on undefined is a TypeError.
mergeOrThrow(ret, master) ==
    IF ret = undefined THEN TypeError
    ELSE IF IsException(ret) THEN ret
    ELSE merge(ret, master)

\* The forEach over the attributes of the time frame, oldest first.
RECURSIVE mergeAttributes(_, _, _, _, _, _)
mergeAttributes(db, featureType, atts, yearFrom, yearTo, ret) ==
    IF Len(atts) = 0 THEN ret
    ELSE LET attribute == Head(atts)
             attributeSettings ==
                 getSettings(db, featureType, LEVEL_ATTRIBUTE,
                             Some(attribute._propertyName), Some(attribute._propertyValue))
             hasChangedSettings ==
                 getSettings(db, featureType, LEVEL_ATTRIBUTE,
                             Some(attribute._propertyName), Some("_iam_hasChanged"))
             merged == mergeOrThrow(ret, attributeSettings[1])
             changed ==
                 IF /\ attribute._fromYear # undefined
                    /\ attribute._fromYear[1] >= yearFrom
                    /\ attribute._fromYear[1] <= yearTo
                    /\ Len(hasChangedSettings) > 0
                 THEN mergeOrThrow(merged, hasChangedSettings[1])
                 ELSE merged
         IN  mergeAttributes(db, featureType, Tail(atts), yearFrom, yearTo,
                             IF Len(attributeSettings) > 0 THEN changed ELSE ret)

\* A filter that keeps the attributes that begin in the time frame.
inTimeFrame_StartsInside(attribute, yearFrom, yearTo) ==
    /\ TruthyNumber(attribute._fromYear)
    /\ attribute._fromYear[1] >= yearFrom
    /\ attribute._fromYear[1] <= yearTo

\* The filter given to feature.getAttributes: false for an attribute that
\* begins after yearTo or ends before yearFrom, true otherwise.
inTimeFrame(attribute, yearFrom, yearTo) ==
    ~ \/ /\ TruthyNumber(attribute._fromYear)
         /\ attribute._fromYear[1] > yearTo
      \/ /\ TruthyNumber(attribute._toYear)
         /\ attribute._toYear[1] < yearFrom

getSettingsOfFeature(db, featureType, featureId, yearFrom, yearTo) ==
    LET standard == getStandardSettings(db, featureType)
        feature == getFeature(db, featureType, featureId)
        atts == IF feature = undefined THEN <<>>
                ELSE sortByFromYear(SelectSeq(feature._attributes,
                        LAMBDA attribute : inTimeFrame(attribute, yearFrom, yearTo)))
        ret == mergeAttributes(db, featureType, atts, yearFrom, yearTo, standard)
        featureSettings == getSettings(db, featureType, LEVEL_FEATURE, Some(featureId),
                                       undefined)
    IN  IF Len(featureSettings) > 0 THEN mergeOrThrow(ret, featureSettings[1]) ELSE ret

\* What the calls of getSettingsOfFeature write.  feature.getAttributes is
\* Array.filter, which returns a new array, so the sort in place that
\* follows leaves the feature's own list as it is.
attributesAfterSort(feature) == feature._attributes

\* a.merge(x): Object.assign writes into the copy {...this}, delete into
\* the copy temp of the master, and the setters into the new instance, so
\* the receiver is as before.
receiverAfterMerge_AssignsInPlace(this, master) == assignDefined(this, master)

receiverAfterMerge(this, master) == this

\* The store after getSettingsOfFeature.  The only stored objects the call
\* works on are the feature, whose attributes it filters and sorts, and the
\* Standard setting, the receiver of the first merge; every later receiver
\* is the result of a merge.
storeAfterGetSettingsOfFeature(db, featureType, featureId, yearFrom, yearTo) ==
    LET standard == getStandardSettings(db, featureType)
        feature == getFeature(db, featureType, featureId)
        atts == IF feature = undefined THEN <<>>
                ELSE sortByFromYear(SelectSeq(feature._attributes,
                        LAMBDA attribute : inTimeFrame(attribute, yearFrom, yearTo)))
        masters == SelectSeq(
            [i \in 1..Len(atts) |->
                getSettings(db, featureType, LEVEL_ATTRIBUTE,
                            Some(atts[i]._propertyName), Some(atts[i]._propertyValue))],
            LAMBDA attributeSettings : Len(attributeSettings) > 0)
        featureSettings == getSettings(db, featureType, LEVEL_FEATURE, Some(featureId),
                                       undefined)
        firstMaster == IF Len(masters) > 0 THEN masters[1][1]
                       ELSE IF Len(featureSettings) > 0 THEN featureSettings[1]
                       ELSE undefined
    IN  [db EXCEPT
            !._features =
                IF feature = undefined THEN @
                ELSE addItem(@, [feature EXCEPT !._attributes = attributesAfterSort(feature)]),
            !._featureSettings =
                IF standard = undefined \/ firstMaster = undefined THEN @
                ELSE addItem(@, receiverAfterMerge(standard, firstMaster))]

(* ------------------------------------------------------------------ *)
(* Specification of the settings resolution: a store with the point     *)
(* feature f1, loaded with a data source of attributes and one of       *)
(* settings, and one getSettingsOfFeature call on it.  addSetting       *)
(* inserts as loadSettings does, and an edit in the dialogue changes    *)
(* the stored object, so a setting made in the dialogue is in the table *)
(* as its edited object.                                                *)
(* ------------------------------------------------------------------ *)
ResolvedAttributes ==
    {FeatureAttribute(POINT, "f1", "population", "1000", Some(1900), Some(1950)),
     FeatureAttribute(POINT, "f1", "population", "2000", Some(1950), undefined)}

ResolvedSettings ==
    {PointSettings(AttributeLevel("population", "1000") @@
        [showText |-> Some(TRUE), textSettings |-> [textFontSize |-> Some(14)],
         pointFill |-> Red]),
     PointSettings(AttributeLevel("population", "2000")),
     PointSettings(AttributeLevel("population", "_iam_hasChanged") @@
        [textSettings |-> [textFillColor |-> Red],
         pointBorder |-> [color |-> Red, width |-> Some(3)]]),
     PointSettings(FeatureLevel("f1", "f1") @@
        [showFeature |-> Some(FALSE), textSettings |-> [textFontSize |-> Some(12)],
         pointFill |-> Black]),
     assertParams(PointSettings(FeatureLevel("f1", "f1")),
                  PointForm(Some(TRUE), Some(TRUE), Some(CIRCLE), Some(8), Red, <<>>)),
     PointSettings(FeatureLevel("f1", "Town") @@
        [showText |-> Some(TRUE), textSettings |-> [textFontSize |-> Some(12)]]),
     assertParams(PointSettings(AttributeLevel("population", "1000")),
                  PointForm(Some(TRUE), Some(FALSE), Some(CIRCLE), Some(6), Red, <<>>)),
     assertParams(PointSettings(AttributeLevel("population", "2000")),
                  PointForm(Some(TRUE), Some(TRUE), Some(CIRCLE), Some(8), Black,
                            [width |-> Some(2)]))}

ResolvedYears ==
    {<<1900, 1949>>, <<1950, 2000>>, <<1900, 2000>>,
     <<1920, 1920>>, <<1950, 1950>>, <<1960, 1960>>}

Loaded(features, attributes, settings) ==
    loadSettings(
        loadFeaturesAttributes(loadFeatures(_init, features, OVERWRITE).db,
                               attributes, OVERWRITE).db,
        settings, OVERWRITE)

ResolveInit ==
    /\ table = undefined
    /\ call = [op |-> "new"]
    /\ \E attributes \in Batches(ResolvedAttributes), settings \in Batches(ResolvedSettings) :
          LET result == Loaded(<<ExtendedFeature(POINT, "f1", PointA)>>, attributes, settings)
          IN  /\ _features = result.db._features
              /\ _featureAttributes = result.db._featureAttributes
              /\ _featureProperties = result.db._featureProperties
              /\ _featureSettings = result.db._featureSettings
              /\ processResult = result.processResult

\* A call of getSettingsOfFeature: call holds the arguments, the returned
\* setting and the number of calls made; the store is what the call's
\* writes leave.
GetSettingsOfFeature ==
    /\ call.op = "new"
    /\ \E years \in ResolvedYears :
          LET after == storeAfterGetSettingsOfFeature(Db, POINT, "f1", years[1], years[2]) IN
          /\ call' = [op |-> "getSettingsOfFeature", featureType |-> POINT,
                      featureId |-> "f1", yearFrom |-> years[1], yearTo |-> years[2],
                      ret |-> getSettingsOfFeature(Db, POINT, "f1", years[1], years[2]),
                      calls |-> 1]
          /\ _features' = after._features
          /\ _featureSettings' = after._featureSettings
    /\ UNCHANGED <<table, _featureAttributes, _featureProperties, processResult>>

\* The same call once more on the store the first call left.
GetSettingsOfFeatureAgain ==
    /\ call.op = "getSettingsOfFeature"
    /\ call.calls = 1
    /\ LET after == storeAfterGetSettingsOfFeature(Db, call.featureType, call.featureId,
                                                   call.yearFrom, call.yearTo) IN
       /\ call' = [call EXCEPT
                      !.ret = getSettingsOfFeature(Db, call.featureType, call.featureId,
                                                   call.yearFrom, call.yearTo),
                      !.calls = 2]
       /\ _features' = after._features
       /\ _featureSettings' = after._featureSettings
    /\ UNCHANGED <<table, _featureAttributes, _featureProperties, processResult>>

ResolveNext == GetSettingsOfFeature \/ GetSettingsOfFeatureAgain

SpecResolve == ResolveInit /\ [][ResolveNext]_vars

(* ------------------------------------------------------------------ *)
(* C10                                                                  *)
(* ------------------------------------------------------------------ *)
DefinedFields(o) == {f \in DOMAIN o \ NestedFields : o[f] # undefined}

\* Every field defined in s, in the setting or in a nested border or text
\* settings object, has its value in ret.
HasFieldsOf(s, ret) ==
    /\ \A f \in DefinedFields(s) : ret[f] = s[f]
    /\ \A b \in BordersOf(s) : \A f \in DefinedFields(s[b]) : ret[b][f] = s[b][f]
    /\ s.textSettings # undefined =>
          \A f \in DefinedFields(s.textSettings) : ret.textSettings[f] = s.textSettings[f]

FeatureLevelSettings(featureType, featureId) ==
    SelectSeq(AllItems(_featureSettings),
              LAMBDA s : /\ s.featureType = Some(featureType)
                         /\ s.levelType = Some(LEVEL_FEATURE)
                         /\ s.levelName = Some(featureId))

\* C10: whenever the settings table holds a Feature-level setting with
\* levelName = featureId for the feature type, getSettingsOfFeature
\* returns a setting in which every field that setting defines has its
\* value, whatever the Standard, Attribute-level and hasChanged settings
\* define.
C10_FeatureSettingsWin ==
    call.op = "getSettingsOfFeature" =>
        LET own == FeatureLevelSettings(call.featureType, call.featureId) IN
        \A i \in 1..Len(own) :
            /\ ~IsException(call.ret)
            /\ HasFieldsOf(own[i], call.ret)

(* ------------------------------------------------------------------ *)
(* C11                                                                  *)
(* ------------------------------------------------------------------ *)
\* The attribute is in the time frame yearFrom..yearTo (the filter given
\* to getAttributes).
Overlaps(attribute, yearFrom, yearTo) ==
    ~ \/ TruthyNumber(attribute._fromYear) /\ attribute._fromYear[1] > yearTo
      \/ TruthyNumber(attribute._toYear) /\ attribute._toYear[1] < yearFrom

AttributeSettingsOf(attribute) ==
    getSettings(Db, attribute.featureType, LEVEL_ATTRIBUTE,
                Some(attribute._propertyName), Some(attribute._propertyValue))

\* The attributes of the feature in the time frame that have a matching
\* Attribute-level setting.
AppliedAttributes(featureType, featureId, yearFrom, yearTo) ==
    LET feature == getFeature(Db, featureType, featureId) IN
    IF feature = undefined THEN <<>>
    ELSE SelectSeq(feature._attributes,
                   LAMBDA a : /\ Overlaps(a, yearFrom, yearTo)
                              /\ Len(AttributeSettingsOf(a)) > 0)

\* No setting that ranks above the Attribute-level settings of the values
\* is stored: no Feature-level and no hasChanged setting.
OnlyAttributeSettings ==
    \A i \in 1..Len(AllItems(_featureSettings)) :
        LET s == AllItems(_featureSettings)[i] IN
        /\ s.levelType # Some(LEVEL_FEATURE)
        /\ s.levelValue # Some("_iam_hasChanged")

\* Every field defined in both settings, nested borders and text settings
\* included, has in ret the value of later.
LaterWins(earlier, later, ret) ==
    /\ ArgumentWins(earlier, later, ret)
    /\ \A b \in BordersOf(later) : ArgumentWins(earlier[b], later[b], ret[b])
    /\ earlier.textSettings # undefined /\ later.textSettings # undefined =>
          ArgumentWins(earlier.textSettings, later.textSettings, ret.textSettings)

\* C11: when only the Standard and Attribute-level settings of attribute
\* values are stored, getSettingsOfFeature returns a setting in which, for
\* any two attributes of the time frame with matching settings, every field
\* defined in both settings has the value of the setting of the attribute
\* with the greater fromYear; and when one attribute alone is in the time
\* frame (value 1000 for 1920, value 2000 for 1960) the result has every
\* field its setting defines.
C11_LaterAttributeWins ==
    (call.op = "getSettingsOfFeature" /\ OnlyAttributeSettings) =>
        LET atts == AppliedAttributes(call.featureType, call.featureId,
                                      call.yearFrom, call.yearTo) IN
        /\ ~IsException(call.ret)
        /\ \A i, j \in 1..Len(atts) :
              atts[i]._fromYear[1] < atts[j]._fromYear[1] =>
                  LaterWins(AttributeSettingsOf(atts[i])[1],
                            AttributeSettingsOf(atts[j])[1], call.ret)
        /\ (\A i, j \in 1..Len(atts) : atts[i] = atts[j]) =>
              \A i \in 1..Len(atts) : HasFieldsOf(AttributeSettingsOf(atts[i])[1], call.ret)

FilterAt(filters, index) == IF index <= Len(filters) THEN filters[index] ELSE NoFilter

\* [...map.keys()] of the object reached at a level: the keys of a Map, or
\* at the level below the last primary key the indices of the item array.
KeysAt(primaryKeys, map, index) ==
    IF index <= Len(primaryKeys) THEN MapKeys(map) ELSE [i \in 1..Len(map) |-> i - 1]

\* ret.set(key, key) for every key in turn.
RECURSIVE SetKeys(_, _)
SetKeys(ret, keys) ==
    IF Len(keys) = 0 THEN ret
    ELSE SetKeys(IF \E i \in 1..Len(ret) : ret[i] = Head(keys) THEN ret
                 ELSE Append(ret, Head(keys)),
                 Tail(keys))

\* _getAllKeys(filters, map, index, ret) with index counted from 1.  ret
\* holds the keys collected and whether the call threw: below the last
\* primary key map is an array, and map.get(key) on it is a TypeError.
RECURSIVE _getAllKeys(_, _, _, _, _)
RECURSIVE _getAllKeysOf(_, _, _, _, _, _)
_getAllKeys(primaryKeys, filters, map, index, ret) ==
    LET keys == SelectSeq(KeysAt(primaryKeys, map, index),
                          LAMBDA key : Accepts(FilterAt(filters, index), key))
    IN  IF index = Len(filters) THEN [ret EXCEPT !.keys = SetKeys(@, keys)]
        ELSE IF index > Len(primaryKeys)
             THEN [ret EXCEPT !.exception = Len(keys) > 0]
             ELSE _getAllKeysOf(primaryKeys, filters, map, keys, index, ret)

_getAllKeysOf(primaryKeys, filters, map, keys, index, ret) ==
    IF Len(keys) = 0 \/ ret.exception THEN ret
    ELSE _getAllKeysOf(primaryKeys, filters, map, Tail(keys), index,
             _getAllKeys(primaryKeys, filters, MapGet(map, Head(keys)), index + 1, ret))

getAllKeys(t, filters) ==
    _getAllKeys(t._primaryKeys, filters, t._mapTable, 1,
                [keys |-> <<>>, exception |-> FALSE])

\* The aggregate function count of getAttributeAggregationPerYear.
count_One(array) == 1

count(array) == Len(array)

\* _mapRec with count as the map function: every terminal list is
\* replaced by its aggregate.
RECURSIVE _mapRec(_, _, _)
_mapRec(primaryKeys, map, index) ==
    [i \in 1..Len(map) |->
        [key |-> map[i].key,
         val |-> IF index = Len(primaryKeys) THEN count(map[i].val)
                 ELSE _mapRec(primaryKeys, map[i].val, index + 1)]]

getAllItemsGroupBy(t, filters, groupBy) ==
    LET resultSet == addItems(IAMMapTable(groupBy), getAllItems(t, filters))
    IN  [resultSet EXCEPT !._mapTable = _mapRec(groupBy, @, 1)]

(* ------------------------------------------------------------------ *)
(* Specification of the table queries: a table of one of the four key   *)
(* schemas holding at most MaxItems inserts, and one getAllItems,       *)
(* getAllKeys or getAllItemsGroupBy call on it with a filter array of   *)
(* any length.                                                          *)
(* ------------------------------------------------------------------ *)
MaxItems == 3

MaxFilters == 5

\* The filter on the first primary key, the feature type.
TypeFilter(primaryKeys) ==
    IF primaryKeys = _featureSettingsTableDef THEN Is(Some(POINT)) ELSE Is(POINT)

\* Filter arrays: no filter function at any level, for every length, and
\* one with the feature type filter and the table's arity.
FilterArrays(primaryKeys) ==
    {[i \in 1..n |-> NoFilter] : n \in 0..MaxFilters}
        \cup {[i \in 1..Len(primaryKeys) |->
                  IF i = 1 THEN TypeFilter(primaryKeys) ELSE NoFilter]}

GroupBysFor(primaryKeys) ==
    IF primaryKeys = _featuresTableDef THEN {<<"featureType">>, <<"_id", "featureType">>}
    ELSE IF primaryKeys = _featureAttributesTableDef
         THEN {<<"_fromYear", "_propertyValue">>, <<"_toYear", "_propertyValue">>,
               <<"_propertyName">>}
    ELSE IF primaryKeys = _featurePropertiesTableDef
         THEN {<<"_propertyName">>, <<"_propertyValue", "featureType">>}
    ELSE {<<"levelType">>, <<"featureType", "levelName">>}

QueryInit ==
    /\ \E def \in TableDefs :
          \E n \in 0..MaxItems :
             \E items \in [1..n -> ItemsFor(def)] :
                table = addItems(IAMMapTable(def), items)
    /\ call = [op |-> "new"]
    /\ StoreInit

GetAllItems ==
    /\ call.op = "new"
    /\ \E filters \in FilterArrays(table._primaryKeys) :
          call' = [op |-> "getAllItems", filters |-> filters, before |-> table,
                   exception |-> FALSE, ret |-> getAllItems(table, filters)]
    /\ UNCHANGED <<table, storeVars>>

GetAllKeys ==
    /\ call.op = "new"
    /\ \E filters \in FilterArrays(table._primaryKeys) :
          LET ret == getAllKeys(table, filters) IN
          call' = [op |-> "getAllKeys", filters |-> filters, before |-> table,
                   exception |-> ret.exception,
                   ret |-> IF ret.exception THEN <<>> ELSE ret.keys]
    /\ UNCHANGED <<table, storeVars>>

GetAllItemsGroupBy ==
    /\ call.op = "new"
    /\ \E filters \in FilterArrays(table._primaryKeys) :
          \E groupBy \in GroupBysFor(table._primaryKeys) :
             call' = [op |-> "getAllItemsGroupBy", filters |-> filters, groupBy |-> groupBy,
                      before |-> table, exception |-> FALSE,
                      ret |-> getAllItemsGroupBy(table, filters, groupBy)]
    /\ UNCHANGED <<table, storeVars>>

QueryNext == GetAllItems \/ GetAllKeys \/ GetAllItemsGroupBy

SpecQuery == QueryInit /\ [][QueryNext]_vars

(* ------------------------------------------------------------------ *)
(* C13                                                                  *)
(* ------------------------------------------------------------------ *)
\* The buckets of a grouped table: the key path and the value of every
\* terminal entry.
RECURSIVE Buckets(_, _, _)
Buckets(map, depth, path) ==
    IF Len(map) = 0 THEN <<>>
    ELSE (IF depth = 1 THEN <<[path |-> Append(path, map[1].key), value |-> map[1].val]>>
          ELSE Buckets(map[1].val, depth - 1, Append(path, map[1].key)))
         \o Buckets(Tail(map), depth, path)

RECURSIVE SumOfValues(_)
SumOfValues(buckets) ==
    IF Len(buckets) = 0 THEN 0 ELSE Head(buckets).value + SumOfValues(Tail(buckets))

GroupOf(item, groupBy) == [n \in 1..Len(groupBy) |-> item[groupBy[n]]]

\* C13: for a filter array of the table's arity, getAllItemsGroupBy with
\* count returns one bucket per distinct combination of group-by key
\* values among the records getAllItems returns, every bucket counts the
\* records of its combination, so the values sum to the number of
\* matching records, and the source table is as before.
C13_GroupByCountsEveryRecordOnce ==
    (call.op = "getAllItemsGroupBy" /\ Len(call.filters) = Len(table._primaryKeys)) =>
        LET items == getAllItems(call.before, call.filters)
            buckets == Buckets(call.ret._mapTable, Len(call.groupBy), <<>>)
        IN  /\ {buckets[b].path : b \in 1..Len(buckets)}
                  = {GroupOf(items[i], call.groupBy) : i \in 1..Len(items)}
            /\ \A b, c \in 1..Len(buckets) : buckets[b].path = buckets[c].path => b = c
            /\ \A b \in 1..Len(buckets) :
                  buckets[b].value =
                      Cardinality({i \in 1..Len(items) :
                                      GroupOf(items[i], call.groupBy) = buckets[b].path})
            /\ SumOfValues(buckets) = Len(items)
            /\ table = call.before

\* Three matching records grouped into two buckets, one of them with two
\* records.
C13_Witness_TwoInOneBucket ==
    /\ call.op = "getAllItemsGroupBy"
    /\ Len(call.filters) = Len(table._primaryKeys)
    /\ Len(getAllItems(table, call.filters)) = 3
    /\ LET buckets == Buckets(call.ret._mapTable, Len(call.groupBy), <<>>) IN
       /\ Len(buckets) = 2
       /\ \E b \in 1..Len(buckets) : buckets[b].value = 2

(* ------------------------------------------------------------------ *)
(* C15                                                                  *)
(* ------------------------------------------------------------------ *)
\* The result of the query is empty: no items, no keys, no buckets.
EmptyResult ==
    IF call.op = "getAllItemsGroupBy" THEN call.ret._mapTable = <<>> ELSE call.ret = <<>>

\* C15: getAllItems, getAllKeys and getAllItemsGroupBy called with a
\* filter array whose length is not the table's number of primary keys
\* return an empty result, raise no exception and leave the table as it
\* was.
C15_WrongArityGivesEmptyResult ==
    (call.op \in {"getAllItems", "getAllKeys", "getAllItemsGroupBy"}
        /\ Len(call.filters) # Len(table._primaryKeys)) =>
        /\ ~call.exception
        /\ EmptyResult
        /\ table = call.before

(* ------------------------------------------------------------------ *)
(* IAMStorage.getAttributeAggregationPerYear, aggregate count, course   *)
(* 'point in time'.  Here the JavaScript type of a year matters: an     *)
(* attribute of a csv file holds its years as the strings of the file,  *)
(* one of a GeoJSON document as the JSON value, string or number.  A    *)
(* year is a pair of the type and the number it reads as.               *)
(* ------------------------------------------------------------------ *)
NumberValue(n) == <<"number", n>>

StringValue(n) == <<"string", n>>

\* '' + year
ToText(year) == StringValue(year)

\* The number a year value converts to in Math.min and Math.max.
ToNumber(value) == value[2]

\* getItem on a grouped table: the entry below the last value is the
\* aggregate, which has no length and is returned as it is; an absent
\* key gives undefined.
RECURSIVE _getItemOfGrouped(_, _, _)
_getItemOfGrouped(values, map, index) ==
    IF ~MapHas(map, values[index]) THEN undefined
    ELSE LET found == MapGet(map, values[index]) IN
         IF index = Len(values) THEN Some(found)
         ELSE _getItemOfGrouped(values, found, index + 1)

RECURSIVE MinOf(_)
MinOf(numbers) ==
    IF Len(numbers) = 1 THEN numbers[1]
    ELSE LET rest == MinOf(Tail(numbers)) IN IF numbers[1] < rest THEN numbers[1] ELSE rest

RECURSIVE MaxOf(_)
MaxOf(numbers) ==
    IF Len(numbers) = 1 THEN numbers[1]
    ELSE LET rest == MaxOf(Tail(numbers)) IN IF numbers[1] > rest THEN numbers[1] ELSE rest

\* The item of one year: {year: year}, then item[attVal] for every value.
RECURSIVE expandItem(_, _, _)
expandItem(resultSet, attributeValues, year) ==
    IF Len(attributeValues) = 0 THEN [k \in {"year"} |-> year]
    ELSE LET n == Len(attributeValues)
             attVal == attributeValues[n]
             item == expandItem(resultSet, SubSeq(attributeValues, 1, n - 1), year)
             yearStr == ToText(year)
             length == _getItemOfGrouped(<<Some(yearStr), attVal>>, resultSet._mapTable, 1)
         IN  [k \in DOMAIN item \cup {attVal} |->
                 IF k = attVal
                 THEN (IF length # undefined /\ length[1] # 0 THEN length[1] ELSE 0)
                 ELSE item[k]]

\* _expand: one item per year from startYear to endYear; without a given
\* bound the smallest or largest defined year key of the result set, and
\* no item at all when there is none (Math.min() is Infinity).
_expand(resultSet, attributeValues, yearFrom, yearTo) ==
    LET keys == SelectSeq(getAllKeys(resultSet, <<NoFilter>>).keys,
                          LAMBDA x : x # undefined)
        numbers == [i \in 1..Len(keys) |-> ToNumber(keys[i][1])]
        bounded == (yearFrom # undefined /\ yearTo # undefined) \/ Len(keys) > 0
        startYear == IF yearFrom # undefined THEN yearFrom[1] ELSE MinOf(numbers)
        endYear == IF yearTo # undefined THEN yearTo[1] ELSE MaxOf(numbers)
    IN  IF ~bounded \/ endYear < startYear THEN <<>>
        ELSE [i \in 1..(endYear - startYear + 1) |->
                 expandItem(resultSet, attributeValues, startYear + i - 1)]

getAttributeAggregationPerYear(db, featureType, attributeName, attributeValues, yearFrom, yearTo) ==
    LET fromYears ==
            getAllItemsGroupBy(db._featureAttributes,
                <<Is(featureType), NoFilter, Is(attributeName), IsOneOf(attributeValues)>>,
                <<"_fromYear", "_propertyValue">>)
    IN  _expand(fromYears, attributeValues, yearFrom, yearTo)

(* ------------------------------------------------------------------ *)
(* Specification of the aggregation: a store with the point features f1 *)
(* and f2 and at most MaxStored loaded attributes, and one              *)
(* getAttributeAggregationPerYear call on it.                           *)
(* ------------------------------------------------------------------ *)
MaxStored == 3

\* Attributes of a csv file (string years) and one of a GeoJSON document
\* that writes its year as a number.
AggregatedAttributes ==
    {FeatureAttribute(POINT, "f1", "population", "1000", Some(StringValue(1900)), undefined),
     FeatureAttribute(POINT, "f2", "population", "1000", Some(StringValue(1900)), undefined),
     FeatureAttribute(POINT, "f1", "population", "2000", Some(StringValue(1905)),
                      Some(StringValue(1910))),
     FeatureAttribute(POINT, "f2", "population", "2000", Some(NumberValue(1905)), undefined),
     FeatureAttribute(POINT, "f1", "status", "1000", Some(StringValue(1900)), undefined)}

AggregatedValues == {<<"1000">>, <<"1000", "2000">>}

AggregatedYears ==
    {<<Some(1900), Some(1905)>>, <<Some(1905), Some(1905)>>, <<undefined, undefined>>}

AggregateInit ==
    /\ table = undefined
    /\ call = [op |-> "new"]
    /\ \E n \in 0..MaxStored :
          \E attributes \in [1..n -> AggregatedAttributes] :
             LET result == Loaded(<<ExtendedFeature(POINT, "f1", PointA),
                                    ExtendedFeature(POINT, "f2", PointB)>>,
                                  attributes, <<>>)
             IN  /\ _features = result.db._features
                 /\ _featureAttributes = result.db._featureAttributes
                 /\ _featureProperties = result.db._featureProperties
                 /\ _featureSettings = result.db._featureSettings
                 /\ processResult = result.processResult

GetAttributeAggregationPerYear ==
    /\ call.op = "new"
    /\ \E attributeValues \in AggregatedValues, years \in AggregatedYears :
          call' = [op |-> "getAttributeAggregationPerYear", featureType |-> POINT,
                   attributeName |-> "population", attributeValues |-> attributeValues,
                   yearFrom |-> years[1], yearTo |-> years[2],
                   ret |-> getAttributeAggregationPerYear(Db, POINT, "population",
                               attributeValues, years[1], years[2])]
    /\ UNCHANGED <<table, storeVars>>

AggregateNext == GetAttributeAggregationPerYear

SpecAggregate == AggregateInit /\ [][AggregateNext]_vars

(* ------------------------------------------------------------------ *)
(* C14                                                                  *)
(* ------------------------------------------------------------------ *)
\* The stored attributes of the feature type, name and value whose
\* fromYear is the year.
AttributesOfYear(featureType, attributeName, attributeValue, year) ==
    {i \in 1..Len(AllItems(_featureAttributes)) :
        LET a == AllItems(_featureAttributes)[i] IN
        /\ a.featureType = featureType
        /\ a._propertyName = attributeName
        /\ a._propertyValue = attributeValue
        /\ a._fromYear # undefined
        /\ ToNumber(a._fromYear[1]) = year}

\* C14: with aggregate count, course 'point in time' and a given window
\* yearFrom <= yearTo, getAttributeAggregationPerYear returns one entry
\* per year of the window in ascending order, and each entry holds for
\* every requested attribute value the number of stored attributes of the
\* feature type, name and value whose fromYear is that year, 0 when there
\* is none.
C14_DenseYearSeries ==
    (call.op = "getAttributeAggregationPerYear"
        /\ call.yearFrom # undefined /\ call.yearTo # undefined) =>
        /\ Len(call.ret) = call.yearTo[1] - call.yearFrom[1] + 1
        /\ \A k \in 1..Len(call.ret) :
              /\ call.ret[k].year = call.yearFrom[1] + k - 1
              /\ \A n \in 1..Len(call.attributeValues) :
                    LET attVal == call.attributeValues[n] IN
                    call.ret[k][attVal] =
                        Cardinality(AttributesOfYear(call.featureType, call.attributeName,
                                                     attVal, call.ret[k].year))

(* ------------------------------------------------------------------ *)
(* Specification of a process result: created with a status and a text, *)
(* then given at most MaxDetails details.  call holds the status it was *)
(* created with and the statuses and details given so far.              *)
(* ------------------------------------------------------------------ *)
MaxDetails == 3

Statuses == {INFO, WARN, ERROR}

DetailTexts == {<<"row 1 ignored">>, <<"unknown feature ", "f2">>}

ResultInit ==
    /\ table = undefined
    /\ _features = _init._features
    /\ _featureAttributes = _init._featureAttributes
    /\ _featureProperties = _init._featureProperties
    /\ _featureSettings = _init._featureSettings
    /\ \E status \in Statuses :
          /\ processResult = ProcessResult(status, <<"Data loaded successfully!">>)
          /\ call = [op |-> "new", status |-> status, statuses |-> <<>>, details |-> <<>>]

AddDetail ==
    /\ Len(call.statuses) < MaxDetails
    /\ \E status \in Statuses, detail \in DetailTexts :
          /\ processResult' = addDetail(processResult, status, detail)
          /\ call' = [call EXCEPT !.op = "addDetail",
                                  !.statuses = Append(@, status),
                                  !.details = Append(@, detail)]
    /\ UNCHANGED <<table, _features, _featureAttributes, _featureProperties,
                   _featureSettings>>

ResultNext == AddDetail

SpecResult == ResultInit /\ [][ResultNext]_vars

(* ------------------------------------------------------------------ *)
(* C16                                                                  *)
(* ------------------------------------------------------------------ *)
\* C16: the status of a process result is the maximum of the status it
\* was created with and the statuses of all details added (INFO < WARN <
\* ERROR), it never decreases from one addDetail call to the next, and
\* details holds exactly the details given, one per call, in call order.
C16_StatusIsMonotone ==
    /\ [](/\ processResult.status = MaxOf(<<call.status>> \o call.statuses)
          /\ processResult.details = call.details)
    /\ [][processResult'.status >= processResult.status]_vars

\* A warning was added after an error, and an information after that.
C16_Witness_WorseThenBetter ==
    /\ call.status = INFO
    /\ call.statuses = <<ERROR, WARN, INFO>>

(* ------------------------------------------------------------------ *)
(* C17                                                                  *)
(* ------------------------------------------------------------------ *)
Suffixes(text) == Len(SelectSeq(text, LAMBDA part : part = " with warnings"))

\* C17: ' with warnings' is appended to the text exactly in the addDetail
\* call that raises the status to WARN and in no other call, so at most
\* once in the lifetime of a process result, and never for a result that
\* goes from INFO to ERROR directly.
C17_WarningSuffixOnce ==
    /\ [](/\ Suffixes(processResult.text) <= 1
          /\ (\A n \in 1..Len(call.statuses) :
                 call.statuses[n] = WARN =>
                    \E m \in 1..(n - 1) : call.statuses[m] = ERROR)
                => Suffixes(processResult.text) = 0)
    /\ [][IF processResult.status < WARN /\ processResult'.status = WARN
          THEN processResult'.text = Append(processResult.text, " with warnings")
          ELSE processResult'.text = processResult.text]_vars

\* A result raised to WARN, then warned again and raised to ERROR.
C17_Witness_WarnedTwice ==
    /\ call.status = INFO
    /\ call.statuses = <<WARN, WARN, ERROR>>
    /\ Suffixes(processResult.text) = 1

(* ------------------------------------------------------------------ *)
(* Export: Feature.toGeoJSON, ExtendedFeature.toGeoJSON,                *)
(* IAMStorage.getSettingsAsObject and IAMStorage.toGeoJSON.  The        *)
(* exported text is modelled by the document JSON.parse reads back from *)
(* it: own fields that are undefined are left out, Infinity is null.    *)
(* ------------------------------------------------------------------ *)
\* A number a minimum is taken of is Some(n) or Infinity.
Infinity == <<"+", "Infinity">>

IsFinite(v) == Len(v) = 1

JSONNull == [json |-> "null"]

\* The least of values that are each Some(n) or Infinity.
leastOf(values) ==
    LET finite == SelectSeq(values, IsFinite) IN
    IF Len(finite) = 0 THEN Infinity
    ELSE Some(MinOf([i \in 1..Len(finite) |-> finite[i][1]]))

\* getMinOfArray of an array of numbers: Infinity for the empty array.
getMinOfArray(array) == leastOf([i \in 1..Len(array) |-> Some(array[i])])

\* Feature.getMinLongitude (axis 1) and Feature.getMinLatitude (axis 2).
\* Math.min of the ring minima of a polygon, Infinity for no ring.
getMinOfFeature(feature, axis) ==
    LET c == feature._coordinates IN
    IF feature.featureType = LINESTRING
    THEN getMinOfArray([i \in 1..Len(c) |-> c[i][axis]])
    ELSE IF feature.featureType = POLYGON
    THEN leastOf([r \in 1..Len(c) |->
            getMinOfArray([i \in 1..Len(c[r]) |-> c[r][i][axis]])])
    ELSE Some(c[axis])

getMinLongitude(db) ==
    leastOf([i \in 1..Len(getAllFeatures(db)) |-> getMinOfFeature(getAllFeatures(db)[i], 1)])

getMinLatitude(db) ==
    leastOf([i \in 1..Len(getAllFeatures(db)) |-> getMinOfFeature(getAllFeatures(db)[i], 2)])

geoJSONName == <<"", "Point", "LineString", "Polygon">>

\* Feature.toGeoJSON; geoJSONName is indexed from 0.
FeatureToGeoJSON(feature) ==
    [type |-> "Feature",
     id |-> feature._id,
     geometry |-> [type |-> geoJSONName[feature.featureType + 1],
                   coordinates |-> feature._coordinates],
     properties |-> <<[key |-> "id", val |-> feature._id]>>]

RECURSIVE assignEntries(_, _)
assignEntries(properties, entries) ==
    IF Len(entries) = 0 THEN properties
    ELSE assignEntries(MapSet(properties, entries[1].key, entries[1].val), Tail(entries))

\* ExtendedFeature.toGeoJSON: the properties and the attribute list are
\* those the feature object holds.
ExtendedFeatureToGeoJSON(feature, addProperties, addAttributes) ==
    LET ret == FeatureToGeoJSON(feature)
        withProperties == IF addProperties
                          THEN assignEntries(ret.properties, feature._properties)
                          ELSE ret.properties
    IN  [ret EXCEPT !.properties =
            IF addAttributes
            THEN MapSet(withProperties, "_iamAttributes", feature._attributes)
            ELSE withProperties]

getAllSettings(db) ==
    getAllItems(db._featureSettings, <<NoFilter, NoFilter, NoFilter, NoFilter>>)

\* The settings are pushed inside `if (mapSettings)`.
getSettingsAsObject(db, mapSettings) ==
    IF mapSettings # undefined
    THEN [_iam_FeatureSettings |-> getAllSettings(db), _iam_MapSettings |-> mapSettings]
    ELSE [_iam_FeatureSettings |-> <<>>]

\* JSON.stringify of an object: its own fields that are not undefined.
\* "__proto__" is no own field.
JSONOfObject(o) ==
    [k \in {f \in DOMAIN o \ {"__proto__"} : o[f] # undefined} |-> o[k]]

JSONOfTextSettings(textSettings) ==
    LET own == JSONOfObject(textSettings) IN
    [k \in DOMAIN own |->
        IF k \in {"textBorder", "textBackgroundBorder"} THEN JSONOfObject(own[k])
        ELSE own[k]]

JSONOfSettings(setting) ==
    LET own == JSONOfObject(setting) IN
    [k \in DOMAIN own |->
        IF k = "textSettings" THEN JSONOfTextSettings(own[k])
        ELSE IF k \in {"pointBorder", "lineBorder1", "lineBorder2", "polygonBorder"}
        THEN JSONOfObject(own[k])
        ELSE own[k]]

TimeFields == {"_fromYear", "_fromMonth", "_fromDay", "_toYear", "_toMonth", "_toDay"}

JSONOfAttribute(attribute) ==
    [k \in {"featureType", "_featureId", "_propertyName", "_propertyValue"}
           \cup {f \in TimeFields : attribute[f] # undefined} |-> attribute[k]]

JSONOfNumber(n) == IF IsFinite(n) THEN n[1] ELSE JSONNull

JSONOfProperty(key, val) ==
    IF key = "_iamAttributes" THEN [i \in 1..Len(val) |-> JSONOfAttribute(val[i])]
    ELSE IF key = "_iam_FeatureSettings" THEN [i \in 1..Len(val) |-> JSONOfSettings(val[i])]
    ELSE val

JSONOfFeature(feature) ==
    [feature EXCEPT
        !.geometry.coordinates =
            IF feature.id = "_iam_Settings"
            THEN [i \in 1..Len(@) |-> JSONOfNumber(@[i])]
            ELSE @,
        !.properties = [i \in 1..Len(@) |->
                           [key |-> @[i].key, val |-> JSONOfProperty(@[i].key, @[i].val)]]]

JSONStringify(ret) ==
    [ret EXCEPT !.features = [i \in 1..Len(@) |-> JSONOfFeature(@[i])]]

\* IAMStorage.toGeoJSON
toGeoJSON(db, addProperties, addAttributes, addSettings, mapSettings) ==
    LET features == [i \in 1..Len(getAllFeatures(db)) |->
                        ExtendedFeatureToGeoJSON(getAllFeatures(db)[i],
                                                 addProperties, addAttributes)]
        helper == addProperty(
                    ExtendedFeature(POINT, "_iam_Settings",
                                    <<getMinLongitude(db), getMinLatitude(db)>>),
                    "_iam_FeatureSettings",
                    getSettingsAsObject(db, mapSettings)._iam_FeatureSettings)
        withMap == IF mapSettings # undefined
                   THEN addProperty(helper, "_iam_MapSettings", mapSettings)
                   ELSE helper
    IN  JSONStringify(
            [type |-> "FeatureCollection",
             features |-> IF addSettings
                          THEN Append(features, ExtendedFeatureToGeoJSON(withMap, TRUE, FALSE))
                          ELSE features])

(* ------------------------------------------------------------------ *)
(* Import: DataSource._readFeatures with the GeoJSON reader, and the    *)
(* file handler that feeds the four loaders from one data source.       *)
(* ------------------------------------------------------------------ *)
\* new DataSource(rawData): empty lists, no map settings.
DataSource ==
    [_features |-> <<>>, _featuresProperties |-> <<>>, _featuresAttributes |-> <<>>,
     _featuresSettings |-> <<>>, _mapSettings |-> undefined]

\* olfeature.get(key): Some(value), or undefined for an absent key.
get(olfeature, key) ==
    IF MapHas(olfeature.properties, key)
    THEN Some(MapGet(olfeature.properties, key))
    ELSE undefined

_mapType(type) ==
    IF type = "Point" THEN POINT
    ELSE IF type = "Polygon" THEN POLYGON
    ELSE LINESTRING

\* key.startsWith('_iam'), for the keys an exported document carries.
StartsWithIam(key) ==
    key \in {"_iamAttributes", "_iam_FeatureSettings", "_iam_MapSettings", "_iam_name"}

RECURSIVE processPropertiesOf(_, _, _)
processPropertiesOf(ds, feature, props) ==
    IF Len(props) = 0 THEN ds
    ELSE LET key == props[1].key
             next == IF key # "geometry" /\ ~StartsWithIam(key) /\ key # "id"
                     THEN [ds EXCEPT !._featuresProperties =
                             Append(@, FeatureProperty(feature.featureType, feature._id,
                                                       key, props[1].val))]
                     ELSE ds
         IN  processPropertiesOf(next, feature, Tail(props))

processProperties(ds, feature, olFeature) ==
    processPropertiesOf(ds, feature, olFeature.properties)

processAttributes(ds, feature, olFeature) ==
    LET atts == get(olFeature, "_iamAttributes") IN
    IF atts = undefined THEN ds
    ELSE [ds EXCEPT !._featuresAttributes =
            @ \o [i \in 1..Len(atts[1]) |->
                    LET att == atts[1][i] IN
                    [FeatureAttribute(feature.featureType, feature._id,
                                      att._propertyName, att._propertyValue,
                                      Field(att, "_fromYear"), Field(att, "_toYear"))
                        EXCEPT !._fromMonth = Field(att, "_fromMonth"),
                               !._fromDay = Field(att, "_fromDay"),
                               !._toMonth = Field(att, "_toMonth"),
                               !._toDay = Field(att, "_toDay")]]]

RECURSIVE processSettingsOf(_, _)
processSettingsOf(ds, settings) ==
    IF Len(settings) = 0 THEN ds
    ELSE LET setting == settings[1]
             next == IF Field(setting, "featureType") = Some(POINT)
                     THEN [ds EXCEPT !._featuresSettings = Append(@, PointSettings(setting))]
                     ELSE IF Field(setting, "featureType") = Some(LINESTRING)
                     THEN [ds EXCEPT !._featuresSettings =
                             Append(@, LineStringSettings(setting))]
                     ELSE IF Field(setting, "featureType") = Some(POLYGON)
                     THEN [ds EXCEPT !._featuresSettings = Append(@, PolygonSettings(setting))]
                     ELSE ds
         IN  processSettingsOf(next, Tail(settings))

processSettings(ds, olFeature) ==
    LET settings == get(olFeature, "_iam_FeatureSettings")
        mapSettings == get(olFeature, "_iam_MapSettings")
        loaded == IF settings # undefined THEN processSettingsOf(ds, settings[1]) ELSE ds
    IN  [loaded EXCEPT !._mapSettings =
            IF mapSettings # undefined THEN mapSettings[1] ELSE undefined]

\* KMLFeaturesSource.processProperties: the description is a list of
\* entries separated by ';', each given here by its parts around '='.
\* An entry id=... renames the feature, which the feature list holds too.
RECURSIVE processDescription(_, _)
processDescription(state, properties) ==
    IF Len(properties) = 0 THEN state
    ELSE LET keyVal == properties[1]
             features == state.ds._features
             feature == features[Len(features)]
             next ==
                IF Len(keyVal) = 2
                THEN IF keyVal[1] = "id"
                     THEN [state EXCEPT !.ds._features[Len(features)]._id = keyVal[2]]
                     ELSE [state EXCEPT !.ds._featuresProperties =
                             Append(@, FeatureProperty(feature.featureType, feature._id,
                                                       keyVal[1], keyVal[2]))]
                ELSE [state EXCEPT !.processResult =
                        addDetail(@, WARN,
                            <<"WARNING: Invalid property structure KML description tag: ">>
                                \o keyVal)]
         IN  processDescription(next, Tail(properties))

processPropertiesKML(state, olFeature) ==
    LET desc == get(olFeature, "description") IN
    IF desc = undefined \/ desc = Some(<<>>) THEN state
    ELSE processDescription(state, desc[1])

\* The loop of _readFeatures over the features the reader returns; state
\* is the data source and the process result.  format tells whose
\* processProperties, processAttributes and processSettings are called:
\* those of KMLFeaturesSource ("KML") or of GeoJSONFeaturesSource.
RECURSIVE readFeaturesFrom(_, _, _, _)
readFeaturesFrom(format, state, olfeatures, counter) ==
    IF Len(olfeatures) = 0 THEN state
    ELSE LET olfeature == olfeatures[1]
             id == IF get(olfeature, "id") # undefined THEN get(olfeature, "id")[1]
                   ELSE IF get(olfeature, "name") # undefined THEN get(olfeature, "name")[1]
                   ELSE "iam_" \o ToString(counter)
             feature == ExtendedFeature(_mapType(olfeature.geometry.type), id,
                                        olfeature.geometry.coordinates)
             pushed == [state EXCEPT !.ds._features = Append(@, feature)]
             next == IF id # "_iam_Settings"
                     THEN IF format = "KML"
                          THEN processPropertiesKML(pushed, olfeature)
                          ELSE [pushed EXCEPT !.ds =
                                  processAttributes(
                                      processProperties(@, feature, olfeature),
                                      feature, olfeature)]
                     ELSE IF format = "KML" THEN state
                     ELSE [state EXCEPT !.ds = processSettings(@, olfeature)]
         IN  readFeaturesFrom(format, next, Tail(olfeatures), counter + 1)

\* oLreader.readFeatures(rawData): the features of a document, or the
\* exception of the parser for a text that is no document.
readFeatures(rawData) ==
    IF "features" \in DOMAIN rawData
    THEN [olfeatures |-> rawData.features]
    ELSE [exception |-> "SyntaxError", message |-> rawData.message]

\* _readFeatures: the data source and the process result it leaves.
_readFeatures(format, rawData, pr) ==
    LET read == readFeatures(rawData) IN
    IF IsException(read)
    THEN [ds |-> DataSource,
          processResult |->
            addDetail([pr EXCEPT
                          !.text = <<"Data has no valid format. No features were loaded.">>],
                      ERROR, read.message)]
    ELSE LET state == readFeaturesFrom(format, [ds |-> DataSource, processResult |-> pr],
                                       read.olfeatures, 1)
         IN  [state EXCEPT !.processResult =
                addDetail(@, INFO,
                          <<ToString(Len(read.olfeatures)),
                            " features successfully read from data source.">>)]

\* new GeoJSONFeaturesSource(rawData, processResult)
GeoJSONFeaturesSource(rawData, pr) == _readFeatures("GeoJSON", rawData, pr)

\* new KMLFeaturesSource(rawData, processResult)
KMLFeaturesSource(rawData, pr) == _readFeatures("KML", rawData, pr)

\* The loaders are handed the process result of the file handler: every
\* detail a loader adds is added to that one.
RECURSIVE addDetails(_, _)
addDetails(pr, details) ==
    IF Len(details) = 0 THEN pr
    ELSE addDetails(addDetail(pr, IF IsWarning(details[1]) THEN WARN ELSE INFO, details[1]),
                    Tail(details))

\* The file handler passes one process result to every loader of the store:
\* at is the store, the data source and that process result, loaded is what
\* one loader returned.
merged(at, loaded) ==
    [at EXCEPT !.db = loaded.db,
               !.processResult = addDetails(@, loaded.processResult.details)]

loadedFeatures(db, source, insertType) ==
    merged([db |-> db, ds |-> source.ds, processResult |-> source.processResult],
           loadFeatures(db, source.ds._features, insertType))

loadedProperties(include, at, insertType) ==
    IF include
    THEN merged(at, loadFeaturesProperties(at.db, at.ds._featuresProperties, insertType))
    ELSE at

loadedAttributes(include, at, insertType) ==
    IF include
    THEN merged(at, loadFeaturesAttributes(at.db, at.ds._featuresAttributes, insertType))
    ELSE at

loadedSettings(include, at, insertType) ==
    IF include
    THEN merged(at, loadSettings(at.db, at.ds._featuresSettings, insertType))
    ELSE at

fileResult(at) ==
    [db |-> at.db, mapSettings |-> at.ds._mapSettings, processResult |-> at.processResult]

\* loadFeatures(file, includeProperties, includeAttributes, includeSettings,
\* insertType) of the map component, for a GeoJSON file.
loadFeaturesFile(db, rawData, includeProperties, includeAttributes, includeSettings, insertType) ==
    fileResult(
      loadedSettings(includeSettings,
        loadedAttributes(includeAttributes,
          loadedProperties(includeProperties,
            loadedFeatures(db,
              GeoJSONFeaturesSource(rawData,
                ProcessResult(INFO, <<"Successfully loaded ", "features from GeoJSON file">>)),
              insertType),
            insertType),
          insertType),
        insertType))

(* ------------------------------------------------------------------ *)
(* Specification of export and import: the store is loaded as in        *)
(* SpecStore; at any point its settings are taken as an object or the   *)
(* store is exported, and an exported document is imported again with   *)
(* everything included and DROPTABLE, as the map component does for its *)
(* features source.                                                     *)
(* ------------------------------------------------------------------ *)
MapSettings == {undefined, [zoom |-> 5]}

\* One export, or one export and its import, is followed in a behaviour.
Exporting == call.op \in {"getSettingsAsObject", "toGeoJSON", "loadFeaturesFile"}

GetSettingsAsObject ==
    \E mapSettings \in MapSettings :
        /\ ~Exporting
        /\ call' = [op |-> "getSettingsAsObject", mapSettings |-> mapSettings,
                    ret |-> getSettingsAsObject(Db, mapSettings)]
        /\ UNCHANGED <<table, storeVars>>

\* What is saved with the features: everything, everything but the
\* settings, or the settings alone.
SaveOptions == {<<TRUE, TRUE, TRUE>>, <<TRUE, TRUE, FALSE>>, <<FALSE, FALSE, TRUE>>}

ToGeoJSON ==
    \E add \in SaveOptions, mapSettings \in MapSettings :
        /\ ~Exporting
        /\ call' = [op |-> "toGeoJSON", addProperties |-> add[1],
                    addAttributes |-> add[2], addSettings |-> add[3],
                    mapSettings |-> mapSettings,
                    ret |-> toGeoJSON(Db, add[1], add[2], add[3], mapSettings)]
        /\ UNCHANGED <<table, storeVars>>

LoadFeaturesFile ==
    /\ call.op = "toGeoJSON"
    /\ LET result == loadFeaturesFile(Db, call.ret, TRUE, TRUE, TRUE, DROPTABLE) IN
        /\ Returned(result)
        /\ call' = [op |-> "loadFeaturesFile", insertType |-> DROPTABLE,
                    exported |-> call, before |-> Db, mapSettings |-> result.mapSettings]
    /\ UNCHANGED table

ExportNext ==
    \/ ~Exporting /\ StoreNext
    \/ GetSettingsAsObject
    \/ ToGeoJSON
    \/ LoadFeaturesFile

SpecExport == StoreSpecInit /\ [][ExportNext]_vars

(* ------------------------------------------------------------------ *)
(* C19                                                                  *)
(* ------------------------------------------------------------------ *)
\* The identity-defining fields of a settings record, also of one read
\* back from a document.
SettingKey(setting) ==
    <<Field(setting, "featureType"), Field(setting, "levelType"),
      Field(setting, "levelName"), Field(setting, "levelValue")>>

\* list holds every record of the settings table exactly once.
CarriesEachOnce(list, db) ==
    /\ Len(list) = Len(getAllSettings(db))
    /\ \A i \in 1..Len(getAllSettings(db)) :
          Cardinality({j \in 1..Len(list) :
                          SettingKey(list[j]) = SettingKey(getAllSettings(db)[i])}) = 1

\* The '_iam_Settings' pseudo-feature of an exported document.
SettingsFeature(document) ==
    SelectSeq(document.features, LAMBDA feature : feature.id = "_iam_Settings")

\* C19: the _iam_FeatureSettings list returned by getSettingsAsObject, and
\* the one on the '_iam_Settings' pseudo-feature of a document exported
\* with addSettings, holds every record of the settings table exactly
\* once, with map settings given and with map settings undefined.
C19_ExportCarriesAllSettings ==
    /\ call.op = "getSettingsAsObject" =>
          CarriesEachOnce(call.ret._iam_FeatureSettings, Db)
    /\ call.op = "toGeoJSON" /\ call.addSettings =>
          /\ Len(SettingsFeature(call.ret)) = 1
          /\ CarriesEachOnce(get(SettingsFeature(call.ret)[1], "_iam_FeatureSettings")[1], Db)

(* ------------------------------------------------------------------ *)
(* C18                                                                  *)
(* ------------------------------------------------------------------ *)
Elements(list) == {list[i] : i \in 1..Len(list)}

FeatureKeys(db) ==
    {<<feature.featureType, feature._id>> : feature \in Elements(getAllFeatures(db))}

\* Every field of an attribute record is identity-defining.
AttributeRecords(db) == Elements(AllItems(db._featureAttributes))

SettingKeys(db) == {SettingKey(setting) : setting \in Elements(getAllSettings(db))}

\* C18: a store exported with properties, attributes and settings and
\* imported again with the four loaders in DROPTABLE mode has the features,
\* the attribute records and the settings records of the store exported,
\* each compared as a set by the identity-defining fields.
C18_ExportImportRoundTrip ==
    (/\ call.op = "loadFeaturesFile"
     /\ call.exported.addProperties
     /\ call.exported.addAttributes
     /\ call.exported.addSettings)
    => /\ FeatureKeys(Db) = FeatureKeys(call.before)
       /\ AttributeRecords(Db) = AttributeRecords(call.before)
       /\ SettingKeys(Db) = SettingKeys(call.before)

(* ------------------------------------------------------------------ *)
(* The csv and JSON adapters.  A csv text is the sequence of its        *)
(* characters, a word that holds no delimiter, quotation mark or line   *)
(* break being taken as one character; a cell is the sequence of the    *)
(* characters appended to it, the empty cell '' being <<>>.  An adapter *)
(* returns the data source and the process result, or the exception     *)
(* that leaves its constructor and the process result as it is then.    *)
(* ------------------------------------------------------------------ *)
\* opts.delimiter: ';' if the text holds one, ',' otherwise.
delimiterOf(rawData) ==
    IF \E c \in 1..Len(rawData) : rawData[c] = ";" THEN ";" ELSE ","

\* arr[row] = arr[row] || []; arr[row][col] = arr[row][col] || ''
ensureCell(arr, row, col) ==
    LET rows == IF Len(arr) < row THEN Append(arr, <<>>) ELSE arr IN
    IF Len(rows[row]) < col THEN [rows EXCEPT ![row] = Append(@, <<>>)] ELSE rows

\* The loop of _parseCsv over the characters; at is the loop's state:
\* the character c to read, arr, row, col and quote.
RECURSIVE parseChars(_, _, _)
parseChars(rawData, delimiter, at) ==
    IF at.c > Len(rawData) THEN at.arr
    ELSE LET cc == rawData[at.c]
             nc == IF at.c < Len(rawData) THEN rawData[at.c + 1] ELSE ""
             cells == ensureCell(at.arr, at.row, at.col)
             appended == [cells EXCEPT ![at.row][at.col] = Append(@, cc)]
         IN  IF cc = "\"" /\ at.quote /\ nc = "\""
             THEN parseChars(rawData, delimiter,
                             [at EXCEPT !.c = @ + 2, !.arr = appended])
             ELSE IF cc = "\""
             THEN parseChars(rawData, delimiter,
                             [at EXCEPT !.c = @ + 1, !.arr = cells, !.quote = ~@])
             ELSE IF cc = delimiter /\ ~at.quote
             THEN parseChars(rawData, delimiter,
                             [at EXCEPT !.c = @ + 1, !.arr = cells, !.col = @ + 1])
             ELSE IF cc = "\r" /\ nc = "\n" /\ ~at.quote
             THEN parseChars(rawData, delimiter,
                             [at EXCEPT !.c = @ + 2, !.arr = cells, !.row = @ + 1, !.col = 1])
             ELSE IF cc \in {"\n", "\r"} /\ ~at.quote
             THEN parseChars(rawData, delimiter,
                             [at EXCEPT !.c = @ + 1, !.arr = cells, !.row = @ + 1, !.col = 1])
             ELSE parseChars(rawData, delimiter,
                             [at EXCEPT !.c = @ + 1, !.arr = appended])

\* _checkHeader on arr[0], which is undefined for an array without rows:
\* the process result with the warnings for misnamed columns, or the
\* exception thrown.
RECURSIVE checkColumns(_, _, _, _)
checkColumns(header, headerTemplate, index, pr) ==
    IF index > Len(headerTemplate) THEN pr
    ELSE checkColumns(header, headerTemplate, index + 1,
            IF <<headerTemplate[index]>> # header[index]
            THEN addDetail(pr, WARN,
                    <<"WARNING: colum ", ToString(index - 1), " should be named ",
                      headerTemplate[index], ". Instead found ">> \o header[index])
            ELSE pr)

_checkHeader(arr, headerTemplate, pr) ==
    IF Len(arr) = 0
    THEN [exception |-> "TypeError",
          message |-> <<"Cannot read properties of undefined (reading 'length')">>]
    ELSE IF Len(arr[1]) < Len(headerTemplate)
    THEN [exception |-> "Error",
          message |-> <<"File must have at least ", ToString(Len(headerTemplate)),
                        " columns in csv format">>]
    ELSE [processResult |-> checkColumns(arr[1], headerTemplate, 1, pr)]

\* The words parseInt reads a number from.
Numerals == {"1900", "1950"}

\* checkContent of the attributes adapter ("attributes") and of the
\* properties adapter ("properties"): whether the value is taken, and the
\* process result.
checkContent(adapter, key, value, pr) ==
    IF key = <<"feature">> /\ value \notin {<<"Point">>, <<"LineString">>, <<"Polygon">>}
    THEN [ok |-> FALSE,
          processResult |->
            addDetail(pr, WARN,
                <<"WARNING: value of column 'feature' should be either 'Point', 'LineString' or 'Polygon'. Instead found '">>
                    \o value \o <<"'. Row will be ignored!">>)]
    ELSE IF adapter = "attributes" /\ key \in {<<"fromYear">>, <<"toYear">>}
            /\ value[1] \notin Numerals
    THEN [ok |-> FALSE,
          processResult |->
            addDetail(pr, WARN,
                <<"WARNING: value of column '">> \o key
                    \o <<"' has to be a valid integer number. Instead found '">>
                    \o value \o <<"'. Value will be ignored!">>)]
    ELSE [ok |-> TRUE, processResult |-> pr]

\* r.reduce(...) of one row: the object of the row, from cell i on.
RECURSIVE reduceRow(_, _, _, _, _, _)
reduceRow(adapter, header, r, i, acc, pr) ==
    IF i > Len(r) THEN [acc |-> acc, processResult |-> pr]
    ELSE LET key == IF i <= Len(header) THEN header[i] ELSE <<"undefined">>
             checked == checkContent(adapter, key, r[i], pr)
         IN  IF r[i] = <<>> THEN reduceRow(adapter, header, r, i + 1, acc, pr)
             ELSE reduceRow(adapter, header, r, i + 1,
                            IF checked.ok THEN MapSet(acc, key, r[i]) ELSE acc,
                            checked.processResult)

RECURSIVE mapRows(_, _, _, _, _)
mapRows(adapter, header, rest, ret, pr) ==
    IF Len(rest) = 0 THEN [ret |-> ret, isNull |-> FALSE, processResult |-> pr]
    ELSE LET reduced == reduceRow(adapter, header, rest[1], 1, <<>>, pr) IN
         mapRows(adapter, header, Tail(rest), Append(ret, reduced.acc),
                 reduced.processResult)

\* _parseCsv with opts.headers: the objects of the rows, or null after
\* the catch; isNull tells which.
_parseCsv(rawData, headerTemplate, pr, adapter) ==
    LET arr == parseChars(rawData, delimiterOf(rawData),
                          [c |-> 1, arr |-> <<>>, row |-> 1, col |-> 1, quote |-> FALSE])
        checked == _checkHeader(arr, headerTemplate, pr)
    IN  IF IsException(checked)
        THEN [ret |-> JSONNull, isNull |-> TRUE,
              processResult |->
                addDetail([pr EXCEPT
                              !.text = <<"File has no valid format. No data was loaded.">>],
                          WARN, checked.message)]
        ELSE mapRows(adapter, arr[1], Tail(arr), <<>>, checked.processResult)

\* object[key], undefined for an absent key.
valueOf(object, key) == IF MapHas(object, <<key>>) THEN MapGet(object, <<key>>) ELSE undefined

featureTypeOf(object) ==
    IF valueOf(object, "feature") = <<"Point">> THEN POINT
    ELSE IF valueOf(object, "feature") = <<"LineString">> THEN LINESTRING
    ELSE POLYGON

\* parseResult.forEach(...) on null
ForEachOfNull ==
    [exception |-> "TypeError",
     message |-> <<"Cannot read properties of null (reading 'forEach')">>]

AttributesHeaderTemplate ==
    <<"feature", "featureId", "propertyName", "propertyValue", "fromYear", "fromMonth",
      "fromDay", "toYear", "toMonth", "toDay">>

\* new FeatureAttributesCSVDataSource(rawData, processResult)
FeatureAttributesCSVDataSource(rawData, pr) ==
    LET parsed == _parseCsv(rawData, AttributesHeaderTemplate, pr, "attributes") IN
    IF parsed.isNull
    THEN [exception |-> ForEachOfNull.exception, message |-> ForEachOfNull.message,
          processResult |-> parsed.processResult]
    ELSE [ds |-> [DataSource EXCEPT !._featuresAttributes =
                    [i \in 1..Len(parsed.ret) |->
                        LET attribute == parsed.ret[i] IN
                        [FeatureAttribute(featureTypeOf(attribute),
                                          valueOf(attribute, "featureId"),
                                          valueOf(attribute, "propertyName"),
                                          valueOf(attribute, "propertyValue"),
                                          valueOf(attribute, "fromYear"),
                                          valueOf(attribute, "toYear"))
                            EXCEPT !._fromMonth = valueOf(attribute, "fromMonth"),
                                   !._fromDay = valueOf(attribute, "fromDay"),
                                   !._toMonth = valueOf(attribute, "toMonth"),
                                   !._toDay = valueOf(attribute, "toDay")]]],
          processResult |-> parsed.processResult]

PropertiesHeaderTemplate == <<"feature", "featureId", "propertyName1", "propertyValue1">>

\* The properties of one row: propertyName1/propertyValue1 to
\* propertyName9/propertyValue9, up to the first pair that is not given.
RECURSIVE propertiesOfRow(_, _)
propertiesOfRow(property, i) ==
    IF i >= 10 THEN <<>>
    ELSE LET name == valueOf(property, "propertyName" \o ToString(i))
             value == valueOf(property, "propertyValue" \o ToString(i))
         IN  IF name # undefined /\ value # undefined
             THEN <<FeatureProperty(featureTypeOf(property), valueOf(property, "featureId"),
                                    name, value)>> \o propertiesOfRow(property, i + 1)
             ELSE <<>>

RECURSIVE propertiesOfRows(_)
propertiesOfRows(rows) ==
    IF Len(rows) = 0 THEN <<>>
    ELSE propertiesOfRow(rows[1], 1) \o propertiesOfRows(Tail(rows))

\* new FeaturePropertiesCSVDataSource(rawData, processResult)
FeaturePropertiesCSVDataSource(rawData, pr) ==
    LET parsed == _parseCsv(rawData, PropertiesHeaderTemplate, pr, "properties") IN
    IF parsed.isNull
    THEN [exception |-> ForEachOfNull.exception, message |-> ForEachOfNull.message,
          processResult |-> parsed.processResult]
    ELSE [ds |-> [DataSource EXCEPT !._featuresProperties = propertiesOfRows(parsed.ret)],
          processResult |-> parsed.processResult]

\* JSON.parse(rawData): the object, or the exception for a text that is
\* no JSON.
JSONParse(rawData) ==
    IF "message" \in DOMAIN rawData
    THEN [exception |-> "SyntaxError", message |-> rawData.message]
    ELSE rawData

\* new FeatureSettingsJSONDataSource(rawData, processResult): JSON.parse
\* is called outside any try.
FeatureSettingsJSONDataSource(rawData, pr) ==
    LET parseResult == JSONParse(rawData)
        settings == Field(parseResult, "_iam_FeatureSettings")
        mapSettings == Field(parseResult, "_iam_MapSettings")
        loaded == IF "_iam_FeatureSettings" \in DOMAIN parseResult
                  THEN processSettingsOf(DataSource, settings)
                  ELSE DataSource
        counted == IF "_iam_FeatureSettings" \in DOMAIN parseResult
                   THEN addDetail(pr, INFO, <<ToString(Len(settings)),
                                              " Settings loaded successfully">>)
                   ELSE pr
    IN  IF IsException(parseResult)
        THEN [exception |-> parseResult.exception, message |-> parseResult.message,
              processResult |-> pr]
        ELSE [ds |-> [loaded EXCEPT !._mapSettings = mapSettings],
              processResult |->
                IF "_iam_MapSettings" \in DOMAIN parseResult
                THEN addDetail(counted, INFO, <<"Map Settings loaded successfully">>)
                ELSE counted]

(* ------------------------------------------------------------------ *)
(* Specification of the adapters: each of the five is constructed on a  *)
(* raw text, with the process result its file handler makes for it.     *)
(* call holds the adapter, the raw text, the exception that left the    *)
(* constructor (undefined when it returned) and the data source.        *)
(* ------------------------------------------------------------------ *)
\* A text that is neither JSON nor XML, with the message of the parser.
Unparseable == [message |-> <<"Unexpected token '<', \"<html>\" is not valid JSON">>]

ExportedStores ==
    {loadFeaturesAttributes(
        loadFeaturesProperties(loadFeatures(_init, features, OVERWRITE).db,
                               <<FeatureProperty(POINT, "f1", "name", "a")>>, OVERWRITE).db,
        attributes, OVERWRITE).db :
        features \in Batches(LoadedFeatures), attributes \in Batches(LoadedAttributes)}

GeoJSONTexts ==
    {toGeoJSON(db, TRUE, TRUE, TRUE, mapSettings) :
        db \in ExportedStores, mapSettings \in MapSettings} \cup {Unparseable}

\* A placemark as the KML reader gives it: name and description.
Placemark(type, coordinates, name, description) ==
    [geometry |-> [type |-> type, coordinates |-> coordinates],
     properties |-> <<[key |-> "name", val |-> name],
                      [key |-> "description", val |-> description]>>]

Placemarks ==
    {Placemark("Point", PointA, "Town", <<<<"id", "f1">>, <<"name", "a">>>>),
     Placemark("LineString", LineA, "Road", <<<<"name", "b">>, <<"broken">>>>),
     Placemark("Point", PointB, "Village", <<>>)}

KMLTexts == {[features |-> features] : features \in Batches(Placemarks)} \cup {Unparseable}

\* The lines of a csv text, cells joined by ';' and lines by line breaks.
RECURSIVE joined(_, _)
joined(parts, separator) ==
    IF Len(parts) = 0 THEN <<>>
    ELSE IF Len(parts) = 1 THEN parts[1]
    ELSE parts[1] \o <<separator>> \o joined(Tail(parts), separator)

Line(cells) == joined([i \in 1..Len(cells) |-> IF cells[i] = "" THEN <<>> ELSE <<cells[i]>>], ";")

CsvText(header, rows) == joined(<<header>> \o rows, "\n")

AttributeHeaders ==
    {Line(AttributesHeaderTemplate),
     Line(<<"feature", "featureId", "name", "propertyValue", "fromYear", "fromMonth",
            "fromDay", "toYear", "toMonth", "toDay">>),
     Line(<<"feature", "featureId", "propertyName", "propertyValue">>),
     <<"<html>">>,
     <<>>}

AttributeRows ==
    {Line(<<"Point", "f1", "population", "1000", "1900", "", "", "1950", "", "">>),
     Line(<<"LineString", "f1", "population", "2000", "soon", "", "", "", "", "">>),
     Line(<<"Circle", "f2", "population", "1000">>)}

AttributeTexts ==
    {CsvText(header, rows) : header \in AttributeHeaders, rows \in Batches(AttributeRows)}

PropertyHeaders ==
    {Line(<<"feature", "featureId", "propertyName1", "propertyValue1", "propertyName2",
            "propertyValue2">>),
     Line(<<"feature", "featureId", "name", "value">>),
     Line(<<"feature", "featureId">>),
     <<"<html>">>,
     <<>>}

PropertyRows ==
    {Line(<<"Point", "f1", "name", "a", "length", "12">>),
     Line(<<"LineString", "f1", "name", "b">>),
     Line(<<"Circle", "f2", "", "a">>)}

PropertyTexts ==
    {CsvText(header, rows) : header \in PropertyHeaders, rows \in Batches(PropertyRows)}

\* JSON.stringify(getSettingsAsObject(mapSettings)), as saveSettings
\* writes it.
SettingsText(db, mapSettings) ==
    LET object == getSettingsAsObject(db, mapSettings) IN
    [k \in DOMAIN object |->
        IF k = "_iam_FeatureSettings"
        THEN [i \in 1..Len(object[k]) |-> JSONOfSettings(object[k][i])]
        ELSE object[k]]

SettingsTexts ==
    {SettingsText(loadSettings(_init, settings, OVERWRITE).db, mapSettings) :
        settings \in Batches(SettingItems), mapSettings \in MapSettings}
    \cup {[_iam_MapSettings |-> [zoom |-> 5]], Unparseable}

AdaptersInit ==
    /\ table = undefined
    /\ call = [op |-> "new"]
    /\ StoreInit

\* What the constructor leaves: the exception, or the data source.
Constructed(op, rawData, result) ==
    /\ call' = [op |-> op, rawData |-> rawData,
                exception |-> IF IsException(result)
                              THEN [exception |-> result.exception,
                                    message |-> result.message]
                              ELSE undefined,
                ds |-> IF IsException(result) THEN undefined ELSE result.ds]
    /\ processResult' = result.processResult
    /\ UNCHANGED <<table, _features, _featureAttributes, _featureProperties,
                   _featureSettings>>

NewGeoJSONFeaturesSource ==
    \E rawData \in GeoJSONTexts :
        Constructed("GeoJSONFeaturesSource", rawData,
            GeoJSONFeaturesSource(rawData,
                ProcessResult(INFO, <<"Successfully loaded ", "features from GeoJSON file">>)))

NewKMLFeaturesSource ==
    \E rawData \in KMLTexts :
        Constructed("KMLFeaturesSource", rawData,
            KMLFeaturesSource(rawData,
                ProcessResult(INFO, <<"Successfully loaded ", "features from GeoJSON file">>)))

NewFeatureAttributesCSVDataSource ==
    \E rawData \in AttributeTexts :
        Constructed("FeatureAttributesCSVDataSource", rawData,
            FeatureAttributesCSVDataSource(rawData,
                ProcessResult(INFO, <<"Successfully loaded ",
                                      "feature attributess from csv file">>)))

NewFeaturePropertiesCSVDataSource ==
    \E rawData \in PropertyTexts :
        Constructed("FeaturePropertiesCSVDataSource", rawData,
            FeaturePropertiesCSVDataSource(rawData,
                ProcessResult(INFO, <<"Successfully loaded ",
                                      "feature properties from csv file">>)))

NewFeatureSettingsJSONDataSource ==
    \E rawData \in SettingsTexts :
        Constructed("FeatureSettingsJSONDataSource", rawData,
            FeatureSettingsJSONDataSource(rawData,
                ProcessResult(INFO, <<"Successfully loaded ", "settings from JSON file">>)))

AdaptersNext ==
    \/ NewGeoJSONFeaturesSource
    \/ NewKMLFeaturesSource
    \/ NewFeatureAttributesCSVDataSource
    \/ NewFeaturePropertiesCSVDataSource
    \/ NewFeatureSettingsJSONDataSource

SpecAdapters == AdaptersInit /\ [][AdaptersNext]_vars

(* ------------------------------------------------------------------ *)
(* C20                                                                  *)
(* ------------------------------------------------------------------ *)
CsvAdapters == {"FeatureAttributesCSVDataSource", "FeaturePropertiesCSVDataSource"}

TextAdapters ==
    {"GeoJSONFeaturesSource", "KMLFeaturesSource", "FeatureSettingsJSONDataSource"}

headerTemplateOf(adapter) ==
    IF adapter = "FeatureAttributesCSVDataSource" THEN AttributesHeaderTemplate
    ELSE PropertiesHeaderTemplate

\* The header row of a csv text that has one.
headerOf(rawData) ==
    parseChars(rawData, delimiterOf(rawData),
               [c |-> 1, arr |-> <<>>, row |-> 1, col |-> 1, quote |-> FALSE])[1]

\* The raw text of the last construction is unparseable, or a csv text
\* whose header has fewer columns than the template.
TotalParseFailure ==
    \/ call.op \in TextAdapters /\ call.rawData = Unparseable
    \/ /\ call.op \in CsvAdapters
       /\ Len(call.rawData) > 0
       /\ Len(headerOf(call.rawData)) < Len(headerTemplateOf(call.op))

\* The message of the exception the failure raises.
FailureMessage ==
    IF call.op \in TextAdapters THEN Unparseable.message
    ELSE <<"File must have at least ", ToString(Len(headerTemplateOf(call.op))),
           " columns in csv format">>

\* C20: constructing an adapter on unparseable raw text, or on a csv text
\* whose header has fewer columns than the template, returns normally,
\* leaves the process result at ERROR with the exception message among its
\* details, and leaves every record list of the adapter empty.
C20_AdaptersNeverThrow ==
    TotalParseFailure =>
        /\ call.exception = undefined
        /\ processResult.status = ERROR
        /\ \E n \in 1..Len(processResult.details) : processResult.details[n] = FailureMessage
        /\ call.ds._features = <<>>
        /\ call.ds._featuresProperties = <<>>
        /\ call.ds._featuresAttributes = <<>>
        /\ call.ds._featuresSettings = <<>>

(* ------------------------------------------------------------------ *)
(* Search: IAMStorage.search and ExtendedFeature.matches                *)
(* ------------------------------------------------------------------ *)
\* A property value as search sees it: a string, written as the list of
\* its characters, or a number (a GeoJSON file keeps numbers as numbers).
StringOf(chars) == [isString |-> TRUE, chars |-> chars, number |-> 0]

NumberOf(n) == [isString |-> FALSE, chars |-> <<>>, number |-> n]

\* String.prototype.toLowerCase over the letters in use.
lowerOfChar(c) == CASE c = "A" -> "a" [] c = "B" -> "b" [] OTHER -> c

toLowerCase(chars) == [i \in 1..Len(chars) |-> lowerOfChar(chars[i])]

\* chars.indexOf(part) !== -1
indexOfFound(chars, part) ==
    \E i \in 0..(Len(chars) - Len(part)) : \A j \in 1..Len(part) : chars[i + j] = part[j]

\* [...Object.values(this._properties)].find(val => val.toLowerCase()...):
\* the values are tested in order up to the first match; a number has no
\* toLowerCase, so the call on it is a TypeError.
RECURSIVE findValue(_, _)
findValue(properties, searchString) ==
    IF Len(properties) = 0 THEN [threw |-> FALSE, found |-> FALSE]
    ELSE IF ~properties[1].val.isString THEN [threw |-> TRUE, found |-> FALSE]
    ELSE IF indexOfFound(toLowerCase(properties[1].val.chars), toLowerCase(searchString))
         THEN [threw |-> FALSE, found |-> TRUE]
         ELSE findValue(Tail(properties), searchString)

matches(feature, searchString) == findValue(feature._properties, searchString)

\* search(searchString): the forEach over getAllFeatures() ends at the
\* first exception of matches.
RECURSIVE searchIn(_, _, _)
searchIn(features, searchString, ret) ==
    IF Len(features) = 0 THEN [threw |-> FALSE, ret |-> ret]
    ELSE LET matched == matches(features[1], searchString) IN
         IF matched.threw THEN [threw |-> TRUE, ret |-> <<>>]
         ELSE searchIn(Tail(features), searchString,
                       IF matched.found THEN Append(ret, features[1]) ELSE ret)

search(db, searchString) == searchIn(getAllFeatures(db), searchString, <<>>)

(* ------------------------------------------------------------------ *)
(* Specification of search: a store filled by loadFeatures and          *)
(* loadFeaturesProperties, searched with the text typed into the search *)
(* field.                                                               *)
(* ------------------------------------------------------------------ *)
SearchedFeatures ==
    {ExtendedFeature(POINT, "f1", PointA), ExtendedFeature(POINT, "f2", PointB)}

SearchedProperties ==
    {FeatureProperty(POINT, "f1", "name", StringOf(<<"A", "b">>)),
     FeatureProperty(POINT, "f1", "population", NumberOf(5)),
     FeatureProperty(POINT, "f2", "name", StringOf(<<"b", "a">>)),
     FeatureProperty(POINT, "f2", "note", StringOf(<<"5">>))}

SearchStrings == {<<>>, <<"a">>, <<"a", "B">>, <<"B">>, <<"5">>, <<"c">>}

\* One search is followed per behaviour: the store is filled first.
Searched == call.op = "search"

SearchLoadFeatures ==
    \E datasource \in Batches(SearchedFeatures), insertType \in InsertTypes :
        /\ ~Searched
        /\ Returned(loadFeatures(Db, datasource, insertType))
        /\ call' = [op |-> "loadFeatures", insertType |-> insertType]
        /\ UNCHANGED table

SearchLoadFeaturesProperties ==
    \E datasource \in Batches(SearchedProperties), insertType \in InsertTypes :
        /\ ~Searched
        /\ Returned(loadFeaturesProperties(Db, datasource, insertType))
        /\ call' = [op |-> "loadFeaturesProperties", insertType |-> insertType]
        /\ UNCHANGED table

Search ==
    \E searchString \in SearchStrings :
        LET result == search(Db, searchString) IN
        /\ ~Searched
        /\ call' = [op |-> "search", insertType |-> OVERWRITE, searchString |-> searchString,
                    threw |-> result.threw, ret |-> result.ret, before |-> Db]
        /\ UNCHANGED <<table, storeVars>>

SearchNext == SearchLoadFeatures \/ SearchLoadFeaturesProperties \/ Search

SpecSearch == StoreSpecInit /\ [][SearchNext]_vars

(* ------------------------------------------------------------------ *)
(* C21: search returns exactly the matching features                    *)
(* ------------------------------------------------------------------ *)
\* The text of a value: the string itself, the decimal digits of a number.
RECURSIVE digitsOf(_)
digitsOf(n) == IF n < 10 THEN <<ToString(n)>> ELSE Append(digitsOf(n \div 10), ToString(n % 10))

textOf(val) == IF val.isString THEN val.chars ELSE digitsOf(val.number)

ContainsIgnoringCase(feature, text) ==
    \E i \in 1..Len(feature._properties) :
        indexOfFound(toLowerCase(textOf(feature._properties[i].val)), toLowerCase(text))

MatchingFeatures(db, text) ==
    SelectSeq(getAllFeatures(db), LAMBDA feature : ContainsIgnoringCase(feature, text))

\* C21: search(text) raises no exception, returns exactly the features
\* with a property value that contains text ignoring case, whatever mix
\* of strings and numbers the property values are, and leaves the store
\* as it was.
C21_SearchFindsMatches ==
    call.op = "search" =>
        /\ ~call.threw
        /\ call.ret = MatchingFeatures(call.before, call.searchString)
        /\ call.before = Db

(* ------------------------------------------------------------------ *)
(* Aggregation with aggregate sum or count and course 'point in time'   *)
(* or 'time interval'                                                   *)
(* ------------------------------------------------------------------ *)
\* getLength(new LineString(...)) / 1000 of OpenLayers: the length of the
\* line through the coordinates, counted here in whole steps along the
\* two axes.
distance(p, q) ==
    (IF p[1] < q[1] THEN q[1] - p[1] ELSE p[1] - q[1])
        + (IF p[2] < q[2] THEN q[2] - p[2] ELSE p[2] - q[2])

RECURSIVE _calculateLength(_)
_calculateLength(array) ==
    IF Len(array) < 2 THEN 0
    ELSE distance(array[1], array[2]) + _calculateLength(Tail(array))

\* getLengthOfCoordinates: the polygon branch calls coordinates(), and the
\* coordinates are an array, so the call is a TypeError.
getLengthOfCoordinates(featureType, coordinates) ==
    IF featureType = LINESTRING THEN [threw |-> FALSE, ret |-> _calculateLength(coordinates)]
    ELSE IF featureType = POLYGON THEN [threw |-> TRUE, ret |-> 0]
    ELSE [threw |-> FALSE, ret |-> 0]

\* if (value): a string that is not empty, a number that is not 0.
Truthy(value) == value[1] = "string" \/ value[2] # 0

\* parseFloat of a number or of a string that reads as one.
parseFloat(value) == value[2]

\* ExtendedFeature.getLength
getLength(feature) ==
    IF MapHas(feature._properties, "length") /\ Truthy(MapGet(feature._properties, "length"))
    THEN [threw |-> FALSE, ret |-> parseFloat(MapGet(feature._properties, "length"))]
    ELSE getLengthOfCoordinates(feature.featureType, feature._coordinates)

\* The aggregate function sum: getFeature(...).getLength() added up over
\* the attributes of a bucket; the first exception ends it.
RECURSIVE sumFrom(_, _, _)
sumFrom(db, array, at) ==
    IF Len(array) = 0 \/ at.threw THEN at
    ELSE LET feature == getFeature(db, array[1].featureType, array[1]._featureId)
             length == IF feature = undefined THEN [threw |-> TRUE, ret |-> 0]
                       ELSE getLength(feature)
         IN  sumFrom(db, Tail(array), [threw |-> length.threw, ret |-> at.ret + length.ret])

sum(db, array) == sumFrom(db, array, [threw |-> FALSE, ret |-> 0])

aggFunc(db, aggType, array) ==
    IF aggType = "sum" THEN sum(db, array) ELSE [threw |-> FALSE, ret |-> count(array)]

\* _mapRec with the aggregate function: at holds the map rebuilt so far
\* and whether the function threw.
RECURSIVE _mapRecWith(_, _, _, _, _, _)
_mapRecWith(db, aggType, primaryKeys, map, index, at) ==
    IF Len(map) = 0 \/ at.threw THEN at
    ELSE LET below == IF index = Len(primaryKeys)
                      THEN aggFunc(db, aggType, map[1].val)
                      ELSE _mapRecWith(db, aggType, primaryKeys, map[1].val, index + 1,
                                       [threw |-> FALSE, ret |-> <<>>])
         IN  _mapRecWith(db, aggType, primaryKeys, Tail(map), index,
                 [threw |-> below.threw,
                  ret |-> Append(at.ret, [key |-> map[1].key, val |-> below.ret])])

getAllItemsGroupByWith(db, t, filters, groupBy, aggType) ==
    LET resultSet == addItems(IAMMapTable(groupBy), getAllItems(t, filters))
        mapped == _mapRecWith(db, aggType, groupBy, resultSet._mapTable, 1,
                              [threw |-> FALSE, ret |-> <<>>])
    IN  [threw |-> mapped.threw, ret |-> [resultSet EXCEPT !._mapTable = mapped.ret]]

\* The defined year keys of a grouped table as numbers.
yearsOf(resultSet) ==
    LET keys == SelectSeq(getAllKeys(resultSet, <<NoFilter>>).keys, LAMBDA x : x # undefined)
    IN  [i \in 1..Len(keys) |-> ToNumber(keys[i][1])]

\* _substract: temp holds the items of the from-years by year, the items
\* of the to-years are taken off, and every item but the first then has
\* the item before it added, which already holds its own running total.
\* Both lists are expanded over the same years, so every year of the
\* to-years is in temp.
RECURSIVE _substract(_, _, _, _)
_substract(fromYearResultSet, toYearResultSet, attributeValues, ret) ==
    IF Len(fromYearResultSet) = 0 THEN ret
    ELSE LET item == fromYearResultSet[1]
             minus == toYearResultSet[1]
             values == {attributeValues[n] : n \in 1..Len(attributeValues)}
             before == [k \in values |-> IF Len(ret) = 0 THEN 0 ELSE ret[Len(ret)][k]]
         IN  _substract(Tail(fromYearResultSet), Tail(toYearResultSet), attributeValues,
                 Append(ret, [k \in DOMAIN item |->
                                 IF k \in values THEN item[k] - minus[k] + before[k]
                                 ELSE item[k]]))

\* getAttributeAggregationPerYear with all its parameters.  Math.min and
\* Math.max of no year are Infinity and -Infinity: the loop of _expand
\* then makes no item.
getAttributeAggregation(db, featureType, attributeName, attributeValues, yearFrom, yearTo, aggType, course) ==
    LET filters == <<Is(featureType), NoFilter, Is(attributeName), IsOneOf(attributeValues)>>
        fromYears == getAllItemsGroupByWith(db, db._featureAttributes, filters,
                                            <<"_fromYear", "_propertyValue">>, aggType)
        toYears == getAllItemsGroupByWith(db, db._featureAttributes, filters,
                                          <<"_toYear", "_propertyValue">>, aggType)
        years == yearsOf(fromYears.ret) \o yearsOf(toYears.ret)
        bounded == (yearFrom # undefined /\ yearTo # undefined) \/ Len(years) > 0
        startYear == IF yearFrom # undefined THEN yearFrom[1] ELSE MinOf(years)
        endYear == IF yearTo # undefined THEN yearTo[1] ELSE MaxOf(years)
    IN  IF fromYears.threw THEN [threw |-> TRUE, ret |-> <<>>]
        ELSE IF course = "point in time"
        THEN [threw |-> FALSE, ret |-> _expand(fromYears.ret, attributeValues, yearFrom, yearTo)]
        ELSE IF toYears.threw THEN [threw |-> TRUE, ret |-> <<>>]
        ELSE IF ~bounded THEN [threw |-> FALSE, ret |-> <<>>]
        ELSE [threw |-> FALSE,
              ret |-> _substract(
                        _expand(fromYears.ret, attributeValues, Some(startYear), Some(endYear)),
                        _expand(toYears.ret, attributeValues, Some(startYear), Some(endYear)),
                        attributeValues, <<>>)]

(* ------------------------------------------------------------------ *)
(* Specification of the aggregation over the three feature types: a     *)
(* store with points, line strings and polygons, some with a 'length'   *)
(* property, and at most MaxSeries loaded attributes, and one call of   *)
(* getAttributeAggregationPerYear with any aggregate and course.        *)
(* ------------------------------------------------------------------ *)
MaxSeries == 3

Ring == <<PointA, PointB, <<10, 51>>, PointA>>

SeriesFeatures ==
    <<ExtendedFeature(POINT, "f1", PointA), ExtendedFeature(POINT, "f2", PointB),
      ExtendedFeature(LINESTRING, "l1", LineA), ExtendedFeature(LINESTRING, "l2", LineA),
      ExtendedFeature(POLYGON, "g1", <<Ring>>), ExtendedFeature(POLYGON, "g2", <<Ring>>)>>

\* A length read from a csv file (a string), and one a GeoJSON document
\* gives as the number 0.
SeriesProperties ==
    <<FeatureProperty(POINT, "f1", "length", StringValue(7)),
      FeatureProperty(LINESTRING, "l2", "length", NumberValue(0)),
      FeatureProperty(POLYGON, "g2", "length", StringValue(3))>>

SeriesAttributes ==
    {FeatureAttribute(POINT, "f1", "population", "1000", Some(StringValue(1900)), undefined),
     FeatureAttribute(POINT, "f2", "population", "1000", Some(StringValue(1900)),
                      Some(StringValue(1905))),
     FeatureAttribute(POINT, "f2", "population", "2000", Some(NumberValue(1905)), undefined),
     FeatureAttribute(POINT, "f1", "population", "2000", Some(StringValue(1903)),
                      Some(StringValue(1905))),
     FeatureAttribute(LINESTRING, "l1", "population", "1000", Some(StringValue(1900)),
                      Some(StringValue(1905))),
     FeatureAttribute(LINESTRING, "l2", "population", "1000", Some(StringValue(1900)), undefined),
     FeatureAttribute(POLYGON, "g1", "population", "1000", Some(StringValue(1900)), undefined),
     FeatureAttribute(POLYGON, "g2", "population", "1000", Some(StringValue(1900)),
                      Some(StringValue(1905)))}

SeriesYears == {<<Some(1900), Some(1905)>>, <<Some(1903), Some(1906)>>, <<undefined, undefined>>}

SeriesInit ==
    /\ table = undefined
    /\ call = [op |-> "new"]
    /\ \E n \in 0..MaxSeries :
          \E attributes \in [1..n -> SeriesAttributes] :
             LET loaded == loadFeaturesProperties(loadFeatures(_init, SeriesFeatures, OVERWRITE).db,
                                                  SeriesProperties, OVERWRITE).db
                 result == loadFeaturesAttributes(loaded, attributes, OVERWRITE)
             IN  /\ _features = result.db._features
                 /\ _featureAttributes = result.db._featureAttributes
                 /\ _featureProperties = result.db._featureProperties
                 /\ _featureSettings = result.db._featureSettings
                 /\ processResult = result.processResult

GetAttributeAggregation ==
    /\ call.op = "new"
    /\ \E featureType \in {POINT, LINESTRING, POLYGON}, attributeValues \in AggregatedValues,
          years \in SeriesYears, aggType \in {"sum", "count"},
          course \in {"point in time", "time interval"} :
          LET result == getAttributeAggregation(Db, featureType, "population", attributeValues,
                                                years[1], years[2], aggType, course)
          IN  call' = [op |-> "getAttributeAggregationPerYear", featureType |-> featureType,
                       attributeName |-> "population", attributeValues |-> attributeValues,
                       yearFrom |-> years[1], yearTo |-> years[2], aggType |-> aggType,
                       course |-> course, threw |-> result.threw, ret |-> result.ret]
    /\ UNCHANGED <<table, storeVars>>

SeriesNext == GetAttributeAggregation

SpecSeries == SeriesInit /\ [][SeriesNext]_vars

(* ------------------------------------------------------------------ *)
(* C22: the aggregate sum adds up the lengths of the owning features    *)
(* ------------------------------------------------------------------ *)
RECURSIVE ringSum(_)
ringSum(rings) == IF Len(rings) = 0 THEN 0 ELSE _calculateLength(rings[1]) + ringSum(Tail(rings))

\* The length of a feature: its 'length' property when it has one,
\* otherwise 0, the length of the line, or the sum of the ring lengths.
LengthOf(feature) ==
    IF MapHas(feature._properties, "length")
    THEN parseFloat(MapGet(feature._properties, "length"))
    ELSE CASE feature.featureType = POINT -> 0
           [] feature.featureType = LINESTRING -> _calculateLength(feature._coordinates)
           [] feature.featureType = POLYGON -> ringSum(feature._coordinates)

RECURSIVE SumOfLengths(_)
SumOfLengths(attributes) ==
    IF Len(attributes) = 0 THEN 0
    ELSE LengthOf(getFeature(Db, attributes[1].featureType, attributes[1]._featureId))
            + SumOfLengths(Tail(attributes))

\* The stored attributes of the feature type, name and value that fall
\* into the bucket of the year, by fromYear or by toYear.
Bucket(featureType, attributeName, attributeValue, year, byToYear) ==
    SelectSeq(AllItems(_featureAttributes), LAMBDA a :
        /\ a.featureType = featureType
        /\ a._propertyName = attributeName
        /\ a._propertyValue = attributeValue
        /\ LET y == IF byToYear THEN a._toYear ELSE a._fromYear
           IN  y # undefined /\ ToNumber(y[1]) = year)

\* C22: with aggregate sum the call completes for every feature type, and
\* with course 'point in time' the value of every year and attribute
\* value is the sum of the lengths of the features owning the attributes
\* of that bucket.
C22_SumOfFeatureLengths ==
    (call.op = "getAttributeAggregationPerYear" /\ call.aggType = "sum") =>
        /\ ~call.threw
        /\ call.course = "point in time" =>
              \A k \in 1..Len(call.ret) :
                 \A n \in 1..Len(call.attributeValues) :
                    LET attVal == call.attributeValues[n] IN
                    call.ret[k][attVal] =
                        SumOfLengths(Bucket(call.featureType, call.attributeName, attVal,
                                            call.ret[k].year, FALSE))

(* ------------------------------------------------------------------ *)
(* C26: the running total of course 'time interval'                     *)
(* ------------------------------------------------------------------ *)
\* The aggregate of a bucket as the call's aggregate type defines it.
AggregateOf(aggType, attributes) ==
    IF aggType = "sum" THEN SumOfLengths(attributes) ELSE Len(attributes)

\* C26: with course 'time interval' and a given window yearFrom <= yearTo
\* the call returns one entry per year of the window in ascending order,
\* and for every requested attribute value the entry of a year is the
\* entry of the year before (0 before yearFrom) plus the aggregate of the
\* matching attributes whose fromYear is that year minus the aggregate of
\* those whose toYear is that year.
C26_RunningTotal ==
    (call.op = "getAttributeAggregationPerYear" /\ call.course = "time interval"
        /\ call.yearFrom # undefined /\ call.yearTo # undefined) =>
        /\ ~call.threw
        /\ Len(call.ret) = call.yearTo[1] - call.yearFrom[1] + 1
        /\ \A k \in 1..Len(call.ret) :
              /\ call.ret[k].year = call.yearFrom[1] + k - 1
              /\ \A n \in 1..Len(call.attributeValues) :
                    LET attVal == call.attributeValues[n]
                        year == call.ret[k].year
                    IN  call.ret[k][attVal] =
                            (IF k = 1 THEN 0 ELSE call.ret[k - 1][attVal])
                            + AggregateOf(call.aggType,
                                  Bucket(call.featureType, call.attributeName, attVal, year, FALSE))
                            - AggregateOf(call.aggType,
                                  Bucket(call.featureType, call.attributeName, attVal, year, TRUE))

(* ------------------------------------------------------------------ *)
(* The settings merged by getSettingsOfFeature, in the order of the     *)
(* merge calls of its forEach                                           *)
(* ------------------------------------------------------------------ *)
\* One entry per ret.merge(...) call of the forEach: the attribute and
\* the level value of the setting merged, the attribute's own value or
\* '_iam_hasChanged'.
RECURSIVE mergedOfAttributes(_, _, _, _, _, _)
mergedOfAttributes(db, featureType, atts, yearFrom, yearTo, ret) ==
    IF Len(atts) = 0 THEN ret
    ELSE LET attribute == Head(atts)
             attributeSettings ==
                 getSettings(db, featureType, LEVEL_ATTRIBUTE,
                             Some(attribute._propertyName), Some(attribute._propertyValue))
             hasChangedSettings ==
                 getSettings(db, featureType, LEVEL_ATTRIBUTE,
                             Some(attribute._propertyName), Some("_iam_hasChanged"))
             own == <<[attribute |-> attribute, setting |-> attributeSettings[1]]>>
             changed ==
                 IF /\ attribute._fromYear # undefined
                    /\ attribute._fromYear[1] >= yearFrom
                    /\ attribute._fromYear[1] <= yearTo
                    /\ Len(hasChangedSettings) > 0
                 THEN <<[attribute |-> attribute, setting |-> hasChangedSettings[1]]>>
                 ELSE <<>>
         IN  mergedOfAttributes(db, featureType, Tail(atts), yearFrom, yearTo,
                                IF Len(attributeSettings) > 0 THEN ret \o own \o changed ELSE ret)

mergedOfFeature(db, featureType, featureId, yearFrom, yearTo) ==
    LET feature == getFeature(db, featureType, featureId)
        atts == IF feature = undefined THEN <<>>
                ELSE sortByFromYear(SelectSeq(feature._attributes,
                        LAMBDA attribute : inTimeFrame(attribute, yearFrom, yearTo)))
    IN  mergedOfAttributes(db, featureType, atts, yearFrom, yearTo, <<>>)

(* ------------------------------------------------------------------ *)
(* Specification of the time frame: a store with the point feature f1,  *)
(* at most MaxWindow attributes of it, with and without years, and a    *)
(* data source of Attribute-level settings, and one                     *)
(* getSettingsOfFeature call on it.  call holds the arguments, the      *)
(* returned setting and the settings merged on the way.                 *)
(* ------------------------------------------------------------------ *)
MaxWindow == 2

WindowAttributes ==
    {FeatureAttribute(POINT, "f1", "population", "1000", Some(1900), Some(1950)),
     FeatureAttribute(POINT, "f1", "population", "2000", Some(1950), undefined),
     FeatureAttribute(POINT, "f1", "population", "1000", undefined, undefined),
     FeatureAttribute(POINT, "f1", "population", "2000", undefined, Some(1910)),
     FeatureAttribute(POINT, "f1", "population", "3000", Some(1920), undefined)}

\* Settings of the values 1000 and 2000 and two hasChanged settings of
\* the name, one of them as the settings dialogue writes it; no setting
\* for the value 3000.
WindowSettings ==
    {PointSettings(AttributeLevel("population", "1000") @@
        [showText |-> Some(TRUE), textSettings |-> [textFontSize |-> Some(14)],
         pointFill |-> Red]),
     PointSettings(AttributeLevel("population", "2000") @@
        [showFeature |-> Some(FALSE), pointFill |-> Black]),
     PointSettings(AttributeLevel("population", "_iam_hasChanged") @@
        [textSettings |-> [textFillColor |-> Red],
         pointFill |-> LightGray,
         pointBorder |-> [color |-> Red, width |-> Some(3)]]),
     assertParams(PointSettings(AttributeLevel("population", "_iam_hasChanged")),
                  PointForm(Some(TRUE), Some(TRUE), Some(CIRCLE), Some(8), Red, <<>>))}

WindowYears ==
    {<<1900, 1949>>, <<1950, 2000>>, <<1900, 2000>>, <<1920, 1920>>, <<1960, 1960>>,
     <<1800, 1850>>}

WindowInit ==
    /\ table = undefined
    /\ call = [op |-> "new"]
    /\ \E n \in 0..MaxWindow :
          \E attributes \in [1..n -> WindowAttributes], settings \in Batches(WindowSettings) :
             LET result == Loaded(<<ExtendedFeature(POINT, "f1", PointA)>>, attributes, settings)
             IN  /\ _features = result.db._features
                 /\ _featureAttributes = result.db._featureAttributes
                 /\ _featureProperties = result.db._featureProperties
                 /\ _featureSettings = result.db._featureSettings
                 /\ processResult = result.processResult

GetSettingsOfFeatureIn ==
    /\ call.op = "new"
    /\ \E years \in WindowYears :
          LET after == storeAfterGetSettingsOfFeature(Db, POINT, "f1", years[1], years[2]) IN
          /\ call' = [op |-> "getSettingsOfFeature", featureType |-> POINT,
                      featureId |-> "f1", yearFrom |-> years[1], yearTo |-> years[2],
                      ret |-> getSettingsOfFeature(Db, POINT, "f1", years[1], years[2]),
                      merged |-> mergedOfFeature(Db, POINT, "f1", years[1], years[2])]
          /\ _features' = after._features
          /\ _featureSettings' = after._featureSettings
    /\ UNCHANGED <<table, _featureAttributes, _featureProperties, processResult>>

WindowNext == GetSettingsOfFeatureIn

SpecWindow == WindowInit /\ [][WindowNext]_vars

(* ------------------------------------------------------------------ *)
(* C24: the overlap rule                                                *)
(* ------------------------------------------------------------------ *)
AttributesOf(featureType, featureId) ==
    LET feature == getFeature(Db, featureType, featureId) IN
    IF feature = undefined THEN <<>> ELSE feature._attributes

\* The attribute begins after the time frame or ends before it.
Outside(attribute, yearFrom, yearTo) ==
    \/ attribute._fromYear # undefined /\ attribute._fromYear[1] > yearTo
    \/ attribute._toYear # undefined /\ attribute._toYear[1] < yearFrom

\* The value setting of the attribute was merged.
Contributes(attribute) ==
    \E i \in 1..Len(call.merged) :
        /\ call.merged[i].attribute = attribute
        /\ call.merged[i].setting.levelValue = Some(attribute._propertyValue)

\* The store with the feature's attribute list cut down to those that
\* satisfy keep.
WithAttributes(featureType, featureId, keep(_)) ==
    LET feature == getFeature(Db, featureType, featureId) IN
    [Db EXCEPT !._features =
        updateFeature(@, [feature EXCEPT !._attributes = SelectSeq(@, keep)])]

IsHasChanged(setting) == setting.levelValue = Some("_iam_hasChanged")

BeginsInside(attribute, yearFrom, yearTo) ==
    /\ attribute._fromYear # undefined
    /\ attribute._fromYear[1] >= yearFrom
    /\ attribute._fromYear[1] <= yearTo

\* The store without the hasChanged settings.
WithoutHasChanged ==
    [Db EXCEPT !._featureSettings =
        addItems(IAMMapTable(_featureSettingsTableDef),
                 SelectSeq(AllItems(_featureSettings), LAMBDA s : ~IsHasChanged(s)))]

\* C25: a hasChanged setting is merged only for an attribute whose
\* fromYear lies in the time frame and directly after the value setting
\* of that attribute; merged last, every field it defines has its value
\* in the result; and when no attribute of the feature begins in the time
\* frame the result is the same as without the hasChanged settings.
C25_HasChangedInsideWindow ==
    call.op = "getSettingsOfFeature" =>
        /\ \A i \in 1..Len(call.merged) :
              IsHasChanged(call.merged[i].setting) =>
                  /\ BeginsInside(call.merged[i].attribute, call.yearFrom, call.yearTo)
                  /\ i > 1
                  /\ call.merged[i - 1].attribute = call.merged[i].attribute
                  /\ ~IsHasChanged(call.merged[i - 1].setting)
        /\ (Len(call.merged) > 0 /\ IsHasChanged(call.merged[Len(call.merged)].setting)) =>
              /\ ~IsException(call.ret)
              /\ HasFieldsOf(call.merged[Len(call.merged)].setting, call.ret)
        /\ (\A i \in 1..Len(AttributesOf(call.featureType, call.featureId)) :
               ~BeginsInside(AttributesOf(call.featureType, call.featureId)[i],
                             call.yearFrom, call.yearTo)) =>
              call.ret = getSettingsOfFeature(WithoutHasChanged, call.featureType,
                                              call.featureId, call.yearFrom, call.yearTo)

(* ------------------------------------------------------------------ *)
(* C28: hasChanged without a setting for the value                      *)
(* ------------------------------------------------------------------ *)
HasChangedSettingsOf(attribute) ==
    getSettings(Db, attribute.featureType, LEVEL_ATTRIBUTE,
                Some(attribute._propertyName), Some("_iam_hasChanged"))

\* C28: for every attribute of the feature in the time frame whose
\* fromYear lies in the time frame and for whose name a hasChanged
\* setting is stored, that hasChanged setting is merged, also when no
\* Attribute-level setting is stored for the attribute's value.
C28_HasChangedForEveryChange ==
    call.op = "getSettingsOfFeature" =>
        LET atts == AttributesOf(call.featureType, call.featureId) IN
        \A i \in 1..Len(atts) :
            (/\ ~Outside(atts[i], call.yearFrom, call.yearTo)
             /\ BeginsInside(atts[i], call.yearFrom, call.yearTo)
             /\ Len(HasChangedSettingsOf(atts[i])) > 0) =>
                \E k \in 1..Len(call.merged) :
                    /\ call.merged[k].attribute = atts[i]
                    /\ call.merged[k].setting = HasChangedSettingsOf(atts[i])[1]

(* ------------------------------------------------------------------ *)
(* IAMMapTable.getKeys                                                  *)
(* ------------------------------------------------------------------ *)
\* _getKeys(values, map, index) with index counted from 1.  Below the
\* last primary key map is the array of the stored records: its keys()
\* are the list positions, and map.get on it is a TypeError.
RECURSIVE _getKeys(_, _, _, _)
_getKeys(primaryKeys, values, map, index) ==
    IF index = Len(values) + 1
    THEN [exception |-> FALSE, ofArray |-> index > Len(primaryKeys),
          ret |-> KeysAt(primaryKeys, map, index)]
    ELSE IF index > Len(primaryKeys) THEN [exception |-> TRUE, ofArray |-> TRUE, ret |-> <<>>]
    ELSE IF ~MapHas(map, values[index]) THEN [exception |-> FALSE, ofArray |-> FALSE, ret |-> <<>>]
    ELSE _getKeys(primaryKeys, values, MapGet(map, values[index]), index + 1)

getKeys(t, values) == _getKeys(t._primaryKeys, values, t._mapTable, 1)

(* ------------------------------------------------------------------ *)
(* Specification of getKeys: a table of one of the four key schemas     *)
(* holding at most MaxItems inserts, and one getKeys call with the key  *)
(* values of a record, stored or not, cut or extended to any length up  *)
(* to one more than the number of primary keys.                         *)
(* ------------------------------------------------------------------ *)
KeyValues(primaryKeys, item, n) ==
    [i \in 1..n |-> item[primaryKeys[IF i <= Len(primaryKeys) THEN i ELSE Len(primaryKeys)]]]

GetKeys ==
    /\ call.op = "new"
    /\ \E item \in ItemsFor(table._primaryKeys), n \in 0..(Len(table._primaryKeys) + 1) :
          LET values == KeyValues(table._primaryKeys, item, n)
              result == getKeys(table, values)
          IN  call' = [op |-> "getKeys", values |-> values, before |-> table,
                       exception |-> result.exception, ofArray |-> result.ofArray,
                       ret |-> result.ret]
    /\ UNCHANGED <<table, storeVars>>

KeysNext == GetKeys

SpecKeys == QueryInit /\ [][KeysNext]_vars

(* ------------------------------------------------------------------ *)
(* C27: getKeys returns key values                                      *)
(* ------------------------------------------------------------------ *)
\* The stored records whose first primary keys have the given values.
RecordsBelow(t, values) ==
    SelectSeq(AllItems(t), LAMBDA r :
        \A i \in 1..Len(values) : r[t._primaryKeys[i]] = values[i])

\* The values the records have for the primary key of the given level.
KeyValuesAt(t, records, level) == {records[i][t._primaryKeys[level]] : i \in 1..Len(records)}

\* C27: for fewer values than primary keys getKeys returns, each once,
\* the values the stored records below the prefix have for the next
\* primary key (nothing for an absent prefix); for as many values as
\* primary keys it returns values of the last primary key, not positions
\* in the list of the stored records.
C27_GetKeysReturnsKeyValues ==
    (call.op = "getKeys" /\ Len(call.values) <= Len(table._primaryKeys)) =>
        LET n == Len(call.values)
            below == RecordsBelow(table, call.values)
        IN  /\ ~call.exception
            /\ ~call.ofArray
            /\ \A i, j \in 1..Len(call.ret) : call.ret[i] = call.ret[j] => i = j
            /\ {call.ret[i] : i \in 1..Len(call.ret)} =
                  KeyValuesAt(table, below, IF n < Len(table._primaryKeys) THEN n + 1 ELSE n)

(* ------------------------------------------------------------------ *)
(* IAMStorage.getAttributesMinimumYear and getAttributesMaximumYear     *)
(* ------------------------------------------------------------------ *)
\* (new Date()).getFullYear()
getFullYear == 2026

\* The fromYear of every stored attribute, in table order.
fromYears(db) ==
    LET items == getAllItems(db._featureAttributes, <<NoFilter, NoFilter, NoFilter, NoFilter>>)
    IN  [i \in 1..Len(items) |-> items[i]._fromYear]

\* Array.sort with a comparator: the undefined elements go to the end
\* without the comparator being asked, the others are put in its order.
RECURSIVE sortDefined(_, _)
sortDefined(years, descending) ==
    IF Len(years) = 0 THEN <<>>
    ELSE LET sorted == sortDefined(SubSeq(years, 1, Len(years) - 1), descending)
             last == years[Len(years)]
             difference(y) == IF descending THEN last[1] - y[1] ELSE y[1] - last[1]
         IN  SelectSeq(sorted, LAMBDA y : difference(y) <= 0) \o <<last>>
                \o SelectSeq(sorted, LAMBDA y : difference(y) > 0)

sortYears(years, descending) ==
    sortDefined(SelectSeq(years, LAMBDA y : y # undefined), descending)
        \o SelectSeq(years, LAMBDA y : y = undefined)

\* years.sort(...)[0]: undefined for an empty array.  The statement in
\* `if (years.length === 0)` computes the current year and drops it.
firstOf(years) == IF Len(years) = 0 THEN undefined ELSE years[1]

getAttributesMinimumYear(db) == firstOf(sortYears(fromYears(db), FALSE))

getAttributesMaximumYear(db) == firstOf(sortYears(fromYears(db), TRUE))

(* ------------------------------------------------------------------ *)
(* Specification of the year bounds: the store loaded with features and *)
(* with attributes with and without a fromYear, and one reading of the  *)
(* minimum and the maximum year, as the time bar makes it.              *)
(* ------------------------------------------------------------------ *)
YearAttributes ==
    {FeatureAttribute(POINT, "f1", "population", "1000", Some(1900), Some(1950)),
     FeatureAttribute(POINT, "f1", "population", "2000", Some(1950), undefined),
     FeatureAttribute(POINT, "f1", "population", "3000", undefined, undefined),
     FeatureAttribute(POINT, "f1", "status", "town", Some(1850), undefined)}

YearsRead == call.op = "getAttributesYears"

YearsLoadFeatures ==
    \E datasource \in Batches(LoadedFeatures), insertType \in InsertTypes :
        /\ ~YearsRead
        /\ Returned(loadFeatures(Db, datasource, insertType))
        /\ call' = [op |-> "loadFeatures", insertType |-> insertType]
        /\ UNCHANGED table

YearsLoadFeaturesAttributes ==
    \E datasource \in Batches(YearAttributes), insertType \in InsertTypes :
        LET result == loadFeaturesAttributes(Db, datasource, insertType) IN
        /\ ~YearsRead
        /\ LongestAttributes(result.db._features)
        /\ Returned(result)
        /\ call' = [op |-> "loadFeaturesAttributes", insertType |-> insertType]
        /\ UNCHANGED table

GetAttributesYears ==
    /\ ~YearsRead
    /\ call' = [op |-> "getAttributesYears", insertType |-> OVERWRITE,
                minimum |-> getAttributesMinimumYear(Db),
                maximum |-> getAttributesMaximumYear(Db)]
    /\ UNCHANGED <<table, storeVars>>

YearsNext == YearsLoadFeatures \/ YearsLoadFeaturesAttributes \/ GetAttributesYears

SpecYears == StoreSpecInit /\ [][YearsNext]_vars

(* ------------------------------------------------------------------ *)
(* C29: the year bounds are defined numbers                             *)
(* ------------------------------------------------------------------ *)
DefinedFromYears ==
    {y[1] : y \in {AllItems(_featureAttributes)[i]._fromYear :
                      i \in 1..Len(AllItems(_featureAttributes))} \ {undefined}}

\* C29: on an empty attributes table both readings are the current year;
\* on a table with attributes that have a fromYear they are the smallest
\* and the largest fromYear, the minimum not above the maximum.
C29_YearBoundsDefined ==
    call.op = "getAttributesYears" =>
        /\ Len(AllItems(_featureAttributes)) = 0 =>
              /\ call.minimum = Some(getFullYear)
              /\ call.maximum = Some(getFullYear)
        /\ DefinedFromYears # {} =>
              /\ call.minimum # undefined /\ call.maximum # undefined
              /\ \A y \in DefinedFromYears : call.minimum[1] <= y /\ y <= call.maximum[1]
              /\ call.minimum[1] \in DefinedFromYears
              /\ call.maximum[1] \in DefinedFromYears

(* ------------------------------------------------------------------ *)
(* Specification of the load handlers of the controller: loadFeatures,  *)
(* loadFeatureAttributes, loadFeatureProperties and loadSettings are    *)
(* async functions on the one thread of the page.  A handler runs from  *)
(* its call, and from the completion of an await, to its next await or  *)
(* its end without any other handler running; at an await it is         *)
(* suspended and any other handler may run.  call holds the last step   *)
(* and the handlers called so far, each with its arguments, its local   *)
(* variables and its position: pc is the statement last reached.        *)
(* ------------------------------------------------------------------ *)
MaxOperations == 2

LoadHandlers == {"loadFeatures", "loadFeatureAttributes", "loadFeatureProperties", "loadSettings"}

\* The handlers whose body is inside try/catch; the try of
\* loadFeatureAttributes is commented out.
Catching == {"loadFeatures", "loadFeatureProperties", "loadSettings"}

IsAwait(statement) == statement \in {"await fl.init()", "await unzipGeoJSON(file)", "await"}

IsLoad(statement) ==
    statement \in {"db.loadFeatures", "db.loadFeaturesProperties", "db.loadFeaturesAttributes",
                   "db.loadSettings"}

endsWith(name, suffix) ==
    /\ Len(name) >= Len(suffix)
    /\ SubSeq(name, Len(name) - Len(suffix) + 1, Len(name)) = suffix

\* A loadFeatures that awaits between two loads of the store.
statementsOf_AwaitsBetweenLoads(handler, file) ==
    IF handler = "loadFeatures"
    THEN <<"await fl.init()",
           IF endsWith(file.name, <<".zip">>) THEN "await unzipGeoJSON(file)"
           ELSE "fl.loadData()",
           "new FeaturesSource", "db.loadFeatures", "await", "db.loadFeaturesProperties",
           "db.loadFeaturesAttributes", "db.loadSettings", "initMap", "showMsg">>
    ELSE IF handler = "loadFeatureAttributes"
    THEN <<"await fl.init()", "fl.loadData()", "new FeatureAttributesCSVDataSource",
           "db.loadFeaturesAttributes", "setYear", "updateMap", "showMsg">>
    ELSE IF handler = "loadFeatureProperties"
    THEN <<"await fl.init()", "fl.loadData()", "new FeaturePropertiesCSVDataSource",
           "db.loadFeaturesProperties", "showMsg">>
    ELSE <<"await fl.init()", "fl.loadData()", "new FeatureSettingsJSONDataSource",
           "db.loadSettings", "updateMap", "showMsg">>

\* The statements of a handler in their order; FileLoader.init awaits
\* the text of the file and unzipGeoJSON awaits unzipRaw, the handler is
\* suspended until they return.
statementsOf(handler, file) ==
    IF handler = "loadFeatures"
    THEN <<"await fl.init()",
           IF endsWith(file.name, <<".zip">>) THEN "await unzipGeoJSON(file)"
           ELSE "fl.loadData()",
           "new FeaturesSource", "db.loadFeatures", "db.loadFeaturesProperties",
           "db.loadFeaturesAttributes", "db.loadSettings", "initMap", "showMsg">>
    ELSE IF handler = "loadFeatureAttributes"
    THEN <<"await fl.init()", "fl.loadData()", "new FeatureAttributesCSVDataSource",
           "db.loadFeaturesAttributes", "setYear", "updateMap", "showMsg">>
    ELSE IF handler = "loadFeatureProperties"
    THEN <<"await fl.init()", "fl.loadData()", "new FeaturePropertiesCSVDataSource",
           "db.loadFeaturesProperties", "showMsg">>
    ELSE <<"await fl.init()", "fl.loadData()", "new FeatureSettingsJSONDataSource",
           "db.loadSettings", "updateMap", "showMsg">>

\* The text of the success message of a handler.
loadedWhat(handler) ==
    IF handler = "loadFeatures" THEN "features from GeoJSON file"
    ELSE IF handler = "loadFeatureAttributes" THEN "feature attributess from csv file"
    ELSE IF handler = "loadFeatureProperties" THEN "feature properties from csv file"
    ELSE "settings from JSON file"

\* new ...Source(dataContent, pr) of a handler: the adapter is chosen by
\* the handler and, in loadFeatures, by the name of the file.
newSource(handler, file, dataContent, pr) ==
    IF handler = "loadFeatures"
    THEN IF endsWith(file.name, <<".kml">>) THEN KMLFeaturesSource(dataContent, pr)
         ELSE GeoJSONFeaturesSource(dataContent, pr)
    ELSE IF handler = "loadFeatureAttributes" THEN FeatureAttributesCSVDataSource(dataContent, pr)
    ELSE IF handler = "loadFeatureProperties" THEN FeaturePropertiesCSVDataSource(dataContent, pr)
    ELSE FeatureSettingsJSONDataSource(dataContent, pr)

\* The csv adapters are modelled on texts cut into cells, a cell being
\* the list of its pieces; the store is modelled on strings and on years
\* it compares with < and >, which take '1950' as 1950.
cellString(cell) == IF Len(cell) = 0 THEN undefined ELSE cell[1]

cellYear(cell) == IF Len(cell) = 0 THEN undefined ELSE Some(IF cell[1] = "1900" THEN 1900 ELSE 1950)

storedAttribute(attribute) ==
    [attribute EXCEPT !._featureId = cellString(@), !._propertyName = cellString(@),
                      !._propertyValue = cellString(@), !._fromYear = cellYear(@),
                      !._toYear = cellYear(@)]

storedProperty(property) ==
    [property EXCEPT !._featureId = cellString(@), !._propertyName = cellString(@),
                     !._propertyValue = cellString(@)]

asStored(handler, ds) ==
    IF handler \in {"loadFeatureAttributes", "loadFeatureProperties"}
    THEN [ds EXCEPT
            !._featuresAttributes = [i \in 1..Len(@) |-> storedAttribute(@[i])],
            !._featuresProperties = [i \in 1..Len(@) |-> storedProperty(@[i])]]
    ELSE ds

\* The data source is taken, or the exception leaves the constructor.
constructed(at, result) ==
    IF IsException(result)
    THEN [at EXCEPT !.status = "thrown",
                    !.exception = [name |-> result.exception, message |-> result.message]]
    ELSE [at EXCEPT !.ds = asStored(at.handler, result.ds),
                    !.processResult = result.processResult]

\* One statement that is no await, on the frame of the handler: its
\* arguments and local variables, the store db and the message shown.
execute(at, statement) ==
    IF statement = "fl.loadData()" THEN [at EXCEPT !.dataContent = at.fileContent]
    ELSE IF statement \in {"new FeaturesSource", "new FeatureAttributesCSVDataSource",
                           "new FeaturePropertiesCSVDataSource",
                           "new FeatureSettingsJSONDataSource"}
    THEN constructed(at, newSource(at.handler, at.file, at.dataContent,
                                   ProcessResult(INFO, <<"Successfully loaded ",
                                                         loadedWhat(at.handler)>>)))
    ELSE IF statement = "db.loadFeatures"
    THEN merged(at, loadFeatures(at.db, at.ds._features, at.insertType))
    ELSE IF statement = "db.loadFeaturesProperties"
    THEN loadedProperties(at.include[1], at, at.insertType)
    ELSE IF statement = "db.loadFeaturesAttributes"
    THEN loadedAttributes(at.include[2], at, at.insertType)
    ELSE IF statement = "db.loadSettings"
    THEN loadedSettings(at.include[3], at, at.insertType)
    ELSE IF statement = "showMsg" THEN [at EXCEPT !.shown = at.processResult]
    ELSE at

\* The catch of a handler: the message of the error is shown; without a
\* catch the promise of the handler is rejected.  The text is built with
\* '+ +', the unary plus of a string that is no number.
caught(at) ==
    IF at.handler \in Catching
    THEN [at EXCEPT !.status = "done",
                    !.shown = [status |-> ERROR,
                               text |-> <<"Unable to load ", loadedWhat(at.handler), "NaN",
                                          at.exception.name>>,
                               details |-> <<at.exception.message>>]]
    ELSE [at EXCEPT !.status = "rejected"]

\* The handler runs on from the statement after pc to its next await, to
\* its end or to an exception.
RECURSIVE run(_)
run(at) ==
    IF at.status = "thrown" THEN caught(at)
    ELSE IF at.pc = Len(statementsOf(at.handler, at.file)) THEN [at EXCEPT !.status = "done"]
    ELSE IF IsAwait(statementsOf(at.handler, at.file)[at.pc + 1])
    THEN [at EXCEPT !.pc = at.pc + 1, !.status = "suspended"]
    ELSE run(execute([at EXCEPT !.pc = at.pc + 1],
                     statementsOf(at.handler, at.file)[at.pc + 1]))

\* What the await the handler is suspended at hands back: fl.init() has
\* set the content of the file, unzipGeoJSON returns the text of the last
\* entry of the archive.
settled(at) ==
    IF statementsOf(at.handler, at.file)[at.pc] = "await fl.init()"
    THEN [at EXCEPT !.fileContent = at.file.text, !.status = "running"]
    ELSE IF statementsOf(at.handler, at.file)[at.pc] = "await unzipGeoJSON(file)"
    THEN [at EXCEPT !.dataContent = at.file.entries[Len(at.file.entries)],
                    !.status = "running"]
    ELSE [at EXCEPT !.status = "running"]

\* The frame of a handler at its call.
called(handler, file, insertType, include, db, shown) ==
    [handler |-> handler, file |-> file, insertType |-> insertType, include |-> include,
     pc |-> 0, status |-> "running", fileContent |-> undefined, dataContent |-> undefined,
     ds |-> undefined, processResult |-> undefined, exception |-> undefined,
     db |-> db, shown |-> shown]

\* The handler as call keeps it: its frame without the store and the
\* message, and without its local variables once it has ended.
operationOf(at) ==
    [handler |-> at.handler, file |-> at.file, insertType |-> at.insertType,
     include |-> at.include, pc |-> at.pc, status |-> at.status,
     fileContent |-> IF at.status = "suspended" THEN at.fileContent ELSE undefined,
     dataContent |-> IF at.status = "suspended" THEN at.dataContent ELSE undefined,
     ds |-> IF at.status = "suspended" THEN at.ds ELSE undefined,
     processResult |-> IF at.status = "suspended" THEN at.processResult ELSE undefined,
     exception |-> at.exception]

frameOf(operation, db, shown) ==
    [handler |-> operation.handler, file |-> operation.file,
     insertType |-> operation.insertType, include |-> operation.include,
     pc |-> operation.pc, status |-> operation.status,
     fileContent |-> operation.fileContent, dataContent |-> operation.dataContent,
     ds |-> operation.ds, processResult |-> operation.processResult,
     exception |-> operation.exception, db |-> db, shown |-> shown]

\* The files: an exported document as .json and inside a .zip, a .kml, a
\* csv of attributes and one of properties, a JSON of settings, and for
\* each handler a page that is none of them.
PointStore ==
    loadFeaturesAttributes(
        loadFeaturesProperties(
            loadFeatures(_init, <<ExtendedFeature(POINT, "f1", PointA)>>, OVERWRITE).db,
            <<FeatureProperty(POINT, "f1", "name", "a")>>, OVERWRITE).db,
        <<FeatureAttribute(POINT, "f1", "population", "1000", Some(1900), Some(1950))>>,
        OVERWRITE).db

LineStore == loadFeatures(_init, <<ExtendedFeature(LINESTRING, "f1", LineA)>>, OVERWRITE).db

File(name, text, entries) == [name |-> name, text |-> text, entries |-> entries]

FilesOf(handler) ==
    IF handler = "loadFeatures"
    THEN {File(<<"point", ".json">>, toGeoJSON(PointStore, TRUE, TRUE, TRUE, [zoom |-> 5]), <<>>),
          File(<<"line", ".zip">>, Unparseable,
               <<toGeoJSON(LineStore, TRUE, TRUE, TRUE, undefined)>>),
          File(<<"places", ".kml">>,
               [features |-> <<Placemark("Point", PointB, "Village", <<>>)>>], <<>>)}
    ELSE IF handler = "loadFeatureAttributes"
    THEN {File(<<"attributes", ".csv">>,
               CsvText(Line(AttributesHeaderTemplate),
                       <<Line(<<"Point", "f1", "population", "2000", "1950", "", "", "",
                                "", "">>)>>), <<>>),
          File(<<"page", ".csv">>, <<"<html>">>, <<>>)}
    ELSE IF handler = "loadFeatureProperties"
    THEN {File(<<"properties", ".csv">>,
               CsvText(Line(<<"feature", "featureId", "propertyName1", "propertyValue1">>),
                       <<Line(<<"Point", "f1", "name", "b">>)>>), <<>>),
          File(<<"page", ".csv">>, <<"<html>">>, <<>>)}
    ELSE {File(<<"settings", ".json">>,
               SettingsText(loadSettings(_init, <<PointSettings(FeatureLevel("f1", "f1"))>>,
                                         OVERWRITE).db, [zoom |-> 5]), <<>>),
          File(<<"page", ".json">>, Unparseable, <<>>)}

\* loadFeatures is called with everything included or with the features
\* alone; the other handlers take no such arguments.
IncludesOf(handler) ==
    IF handler = "loadFeatures" THEN {<<TRUE, TRUE, TRUE>>, <<FALSE, FALSE, FALSE>>}
    ELSE {<<TRUE, TRUE, TRUE>>}

LoadsInit ==
    /\ table = undefined
    /\ call = [op |-> "new", id |-> 0, operations |-> <<>>]
    /\ StoreInit

\* The step of one handler: the store and the message are what its frame
\* holds when it stops.
Stopped(op, id, operations, at) ==
    /\ call' = [op |-> op, id |-> id,
                operations |-> [i \in 1..Len(operations) |->
                                   IF i = id THEN operationOf(at) ELSE operations[i]]]
    /\ _features' = at.db._features
    /\ _featureAttributes' = at.db._featureAttributes
    /\ _featureProperties' = at.db._featureProperties
    /\ _featureSettings' = at.db._featureSettings
    /\ processResult' = at.shown
    /\ UNCHANGED table

\* A handler is called: it runs to its first await.
Call ==
    \E handler \in LoadHandlers, insertType \in InsertTypes :
        \E file \in FilesOf(handler), include \in IncludesOf(handler) :
            /\ Len(call.operations) < MaxOperations
            /\ Stopped("call", Len(call.operations) + 1,
                       Append(call.operations, undefined),
                       run(called(handler, file, insertType, include, Db, processResult)))

\* The await of a suspended handler returns: the handler runs on.
Resume ==
    \E id \in 1..Len(call.operations) :
        /\ call.operations[id].status = "suspended"
        /\ Stopped("resume", id, call.operations,
                   run(settled(frameOf(call.operations[id], Db, processResult))))

LoadsNext ==
    \/ Call
    \/ Resume

SpecLoads == LoadsInit /\ [][LoadsNext]_vars

(* ------------------------------------------------------------------ *)
(* C23                                                                  *)
(* ------------------------------------------------------------------ *)
\* The handler has passed a load of the store.
LoadedBefore(operation) ==
    \E i \in 1..operation.pc : IsLoad(statementsOf(operation.handler, operation.file)[i])

\* The text the handler hands to its adapter.
ContentOf(file) ==
    IF endsWith(file.name, <<".zip">>) THEN file.entries[Len(file.entries)] ELSE file.text

\* The store after every load of the handler, made on db one after the
\* other: db itself when the adapter throws.
WholeLoadOf(handler, include, insertType, source, db) ==
    IF IsException(source) THEN db
    ELSE IF handler = "loadFeatures"
    THEN loadedSettings(include[3],
            loadedAttributes(include[2],
                loadedProperties(include[1], loadedFeatures(db, source, insertType),
                                 insertType),
                insertType),
            insertType).db
    ELSE IF handler = "loadFeatureAttributes"
    THEN loadFeaturesAttributes(db, asStored(handler, source.ds)._featuresAttributes,
                                insertType).db
    ELSE IF handler = "loadFeatureProperties"
    THEN loadFeaturesProperties(db, asStored(handler, source.ds)._featuresProperties,
                                insertType).db
    ELSE loadSettings(db, source.ds._featuresSettings, insertType).db

WholeLoad(operation, db) ==
    WholeLoadOf(operation.handler, operation.include, operation.insertType,
                newSource(operation.handler, operation.file, ContentOf(operation.file),
                          ProcessResult(INFO, <<"Successfully loaded ",
                                                loadedWhat(operation.handler)>>)),
                db)

NoLoadBeforeAwait ==
    \A id \in 1..Len(call.operations) :
        call.operations[id].status = "suspended" => ~LoadedBefore(call.operations[id])

LoadsInOneStep ==
    Db' # Db =>
        /\ call'.op = "resume"
        /\ call'.operations[call'.id].status = "done"
        /\ Db' = WholeLoad(call.operations[call'.id], Db)

\* C23: with any number of load handlers called before one another has
\* ended, no handler is ever suspended after a load of the store, and
\* every step that changes the store is the step of one handler that
\* resumes after its fetch and ends, and takes the store to what all the
\* loads of that handler make of it, the DROPTABLE reset and every insert
\* included: no state between them exists for another handler or a query.
C23_LoadsAreAtomic == []NoLoadBeforeAwait /\ [][LoadsInOneStep]_vars

\* A loadFeatures with DROPTABLE has reset and loaded the store in its
\* last step while another handler, its file fetched, was suspended at
\* the await of unzipGeoJSON.
C23_Witness_LoadWhileSuspended ==
    /\ call.op = "resume"
    /\ \E id, other \in 1..Len(call.operations) :
          /\ id = call.id
          /\ call.operations[id].handler = "loadFeatures"
          /\ call.operations[id].status = "done"
          /\ call.operations[id].insertType = DROPTABLE
          /\ call.operations[id].include[1]
          /\ call.operations[other].status = "suspended"
          /\ call.operations[other].pc = 2
    /\ Db # _init

(* ------------------------------------------------------------------ *)
(* Specification of the OSM enhancement: the store is loaded with       *)
(* features, then loadOSMEnhancements is called on a csv file.  It      *)
(* calls the async loadOSM of a new OSMEnhancer, which runs to its      *)
(* await of fl.init() and is suspended, and goes on to initMap(); the   *)
(* rest of loadOSM runs when the file is there.  call holds the file,   *)
(* the position of loadOSM and the features the map was initialised     *)
(* with.                                                                *)
(* ------------------------------------------------------------------ *)
OSMHeaderTemplate == <<"Type", "Id", "Name", "longitude", "latitude">>

\* The filter is (x) => parseInt(x) === parseInt(featureType), on the
\* feature types the table holds as numbers.
getAllFeaturesWithType(db, featureType) ==
    getAllItems(db._features, <<Is(parseInt(featureType)), NoFilter>>)

\* initMap of the map component: the layers of the map are filled with
\* the features of each type as the store holds them at the call.
initMap(db) ==
    [points |-> getAllFeaturesWithType(db, POINT),
     lines |-> getAllFeaturesWithType(db, LINESTRING),
     polygons |-> getAllFeaturesWithType(db, POLYGON)]

\* parseFloat of a cell of the files: the numeral it holds.
parseFloatOfCell(cell) ==
    IF cell = <<"10">> THEN 10
    ELSE IF cell = <<"11">> THEN 11
    ELSE IF cell = <<"50">> THEN 50
    ELSE 51

\* One pass of parseResult.forEach: a row of Type 'new' adds a point, any
\* other row names the point of its Id when the store holds it.
enhanced(db, attribute) ==
    IF valueOf(attribute, "Type") = <<"new">>
    THEN [db EXCEPT !._features =
            addItem(@, ExtendedFeature(POINT, cellString(valueOf(attribute, "Id")),
                                       <<parseFloatOfCell(valueOf(attribute, "longitude")),
                                         parseFloatOfCell(valueOf(attribute, "latitude"))>>))]
    ELSE IF getFeature(db, POINT, cellString(valueOf(attribute, "Id"))) = undefined
    THEN db
    ELSE [db EXCEPT !._features =
            updateFeature(@, addProperty(getFeature(db, POINT,
                                                    cellString(valueOf(attribute, "Id"))),
                                         "_iam_name",
                                         cellString(valueOf(attribute, "Name"))))]

RECURSIVE enhancedBy(_, _)
enhancedBy(db, rows) ==
    IF Len(rows) = 0 THEN db ELSE enhancedBy(enhanced(db, rows[1]), Tail(rows))

\* What the rows of the parse result make of the store; forEach of null
\* throws when the file did not parse.
enhancedByParsed(db, parsed) ==
    IF parsed.isNull
    THEN [exception |-> ForEachOfNull.exception, message |-> ForEachOfNull.message, db |-> db]
    ELSE [db |-> enhancedBy(db, parsed.ret)]

\* The part of loadOSM after its await, on the text of the file.
loadOSM(db, rawData) ==
    enhancedByParsed(db, _parseCsv(rawData, OSMHeaderTemplate,
                                   ProcessResult(INFO, <<"Enhancing OSM data">>), "osm"))

OSMRows ==
    {Line(<<"new", "n1", "New", "11", "51">>),
     Line(<<"name", "f1", "Alpha", "", "">>),
     Line(<<"name", "f9", "Beta", "", "">>)}

OSMTexts ==
    {CsvText(Line(OSMHeaderTemplate), rows) : rows \in Batches(OSMRows)} \cup {<<"<html>">>}

Enhancing == call.op \in {"loadOSMEnhancements", "loadOSM"}

OSMLoadFeatures ==
    \E features \in Batches(LoadedFeatures) :
        /\ call.op = "new"
        /\ Returned(loadFeatures(Db, features, OVERWRITE))
        /\ call' = [op |-> "loadFeatures", insertType |-> OVERWRITE]
        /\ UNCHANGED table

\* loadOSMEnhancements(file): new OSMEnhancer(file); osm.loadOSM(), which
\* returns its promise at the await; initMap().
LoadOSMEnhancements ==
    \E rawData \in OSMTexts :
        /\ ~Enhancing
        /\ call' = [op |-> "loadOSMEnhancements", insertType |-> call.insertType,
                    rawData |-> rawData, loadOSM |-> "suspended", map |-> initMap(Db),
                    before |-> Db]
        /\ UNCHANGED <<table, storeVars>>

\* fl.init() has returned: loadOSM runs to its end, or to the exception
\* that rejects its promise.
LoadOSM ==
    /\ call.op = "loadOSMEnhancements"
    /\ LET result == loadOSM(Db, call.rawData) IN
        /\ call' = [call EXCEPT !.op = "loadOSM",
                                !.loadOSM = IF IsException(result) THEN "rejected"
                                            ELSE "done"]
        /\ _features' = result.db._features
    /\ UNCHANGED <<table, _featureAttributes, _featureProperties, _featureSettings,
                   processResult>>

OSMNext ==
    \/ OSMLoadFeatures
    \/ LoadOSMEnhancements
    \/ LoadOSM

SpecOSM == StoreSpecInit /\ [][OSMNext]_vars

(* ------------------------------------------------------------------ *)
(* C30                                                                  *)
(* ------------------------------------------------------------------ *)
\* C30: once loadOSMEnhancements has initialised the map, loadOSM has
\* fetched its file and added or updated all its features, and the map
\* holds the features of the enhanced store.
C30_MapInitialisedAfterLoadOSM ==
    Enhancing =>
        /\ call.loadOSM = "done"
        /\ call.map = initMap(loadOSM(call.before, call.rawData).db)

====
